---------------------------- MODULE Spec2Model ----------------------------
(***************************************************************************)
(* POS ingestion agent: the scheduler of index.js, the cycle of            *)
(* IntegrationOrchestrator.executeIngestion, the per-configuration         *)
(* pipeline of processConfig (fetch, map, insert in one PostgreSQL         *)
(* transaction, ingestion log) and the statements of DataInserter.         *)
(*                                                                         *)
(* Every `await` of the source is a step: between two steps of one cycle   *)
(* another cycle may run.  The database is PostgreSQL reached through pg   *)
(* (src/src/config/database.js): READ COMMITTED visibility, a statement    *)
(* error aborts the open transaction until ROLLBACK, a lost connection     *)
(* discards the open transaction.                                          *)
(***************************************************************************)
EXTENDS Integers, Sequences, FiniteSets, TLC

\* ------------------------------------------------------------------ bounds
MaxKey == 1        \* vendors send invoice numbers 1..MaxKey (or none)
MaxBatch == 2      \* raw records in one fetch
MaxPay == 1        \* payment rows of one raw record
NConfigs == 2      \* active configurations returned by getActiveConfigs
MaxTicks == 1      \* timer ticks that fire (cycle 0 is the startup run)
MaxRows == 2       \* rows of one segment handed to a grouper
MaxReceipt == 2    \* receipt numbers 1..MaxReceipt, as digits and as other text
MaxValue == 1      \* values 1..MaxValue of a source field
MaxRules == 2      \* mapping rules of one vendor
MaxRecords == 2    \* raw records handed to the field mapper
MaxUuid == 2       \* runs of the uuid generator that can be told apart

\* `undefined` of JavaScript, where an integer is expected
Undefined == -1

Runners == 0..MaxTicks
Configs == 1..NConfigs

\* ------------------------------------------------------------ raw payloads
\* A raw record as far as the pipeline reads it: the invoice number the
\* mapping resolves (or undefined), its item and payment rows, whether the
\* header INSERT of its canonical record is rejected by the database (a value
\* the column type refuses; the items and payments of such a record are never
\* read).
RawRecords ==
    { rec \in [inv : {Undefined} \cup (1..MaxKey), items : BOOLEAN,
               pays : 0..MaxPay, bad : BOOLEAN] :
        rec.bad => (~rec.items /\ rec.pays = 0) }

RECURSIVE SeqsUpTo(_, _)
SeqsUpTo(S, n) ==
    IF n = 0 THEN { <<>> }
    ELSE LET shorter == SeqsUpTo(S, n - 1)
         IN  shorter \cup { Append(s, x) : s \in { q \in shorter : Len(q) = n - 1 }, x \in S }

\* What fetchData resolves to: null, an array of raw records (possibly
\* empty), or an object in which the transaction row root resolves to nothing.
RawPayloads ==
    { [kind |-> "null", rows |-> <<>>], [kind |-> "noroot", rows |-> <<>>] }
    \cup { [kind |-> "array", rows |-> s] : s \in SeqsUpTo(RawRecords, MaxBatch) }

NoPayload == [kind |-> "unset", rows |-> <<>>]

VARIABLES
    startupPc,              \* index.js main: "startup", "initial", "running", "waiting"
    isValidated,            \* index.js:42
    cronJob,                \* index.js:41  "null" | "scheduled"
    pc,                     \* per cycle: position in executeIngestion / processConfig
    nActive,                \* per cycle: how many configurations getActiveConfigs returned
    cfgIdx,                 \* per cycle: index of the configuration being processed
    loc,                    \* per cycle: the locals of processConfig
    client,                 \* per cycle: the pg client and its transaction state
    pend,                   \* per cycle: rows written in the open transaction
    raw_transactions,       \* committed header rows
    raw_transaction_items,  \* committed aggregated item rows
    raw_payment,            \* committed payment rows
    raw_exceptions,         \* committed exception rows
    ingestion_log,          \* ingestion_log rows (written through pool.query)
    batchFailed,            \* history: batches that met a batch-level failure after BEGIN
    rollbackIssued,         \* history: batches whose client was sent ROLLBACK
    logRejected,            \* history: << batch, status >> of the ingestion-log writes that failed
    raised,                 \* history: batches whose error reached the outer catch
    call,                   \* the synchronous function that was called last ("none": none yet)
    args,                   \* its arguments
    result,                 \* what it returned
    envFaults,              \* history: batches hit by a fault of the environment
    hdrAtBegin,             \* history, per cycle: the committed header rows at BEGIN
    overlapped              \* history: a cycle started while another was in progress

vars == << startupPc, isValidated, cronJob, pc, nActive, cfgIdx, loc, client, pend,
           raw_transactions, raw_transaction_items, raw_payment, raw_exceptions,
           ingestion_log, batchFailed, rollbackIssued, logRejected, raised,
           envFaults, hdrAtBegin, overlapped, call, args, result >>

schedVars == << startupPc, isValidated, cronJob >>
dbVars == << raw_transactions, raw_transaction_items, raw_payment, raw_exceptions >>
cycVars == << nActive, cfgIdx >>
histVars == << batchFailed, rollbackIssued, logRejected, raised, envFaults,
              hdrAtBegin, overlapped >>

\* ----------------------------------------------------------------- helpers
BatchId(r) == << r, cfgIdx[r] >>

NoRows == [hdr |-> {}, itm |-> {}, pay |-> {}, exc |-> {}]

FreshLocals ==
    [ rawData |-> NoPayload, allMappings |-> FALSE, mapped |-> FALSE,
      transactions |-> <<>>, i |-> 1,
      totalRecords |-> 0, totalErrors |-> 0, totalSkipped |-> 0,
      outcome |-> <<>> ]

\* The positions of processConfig at which a statement of the batch
\* transaction is about to be sent on the client.
InsertPcs == { "check", "hdr", "items", "pay", "exc", "commit" }

\* The calls of the synchronous helpers (groupers, mappers, path resolver).
pureVars == << call, args, result >>

\* A cycle is in progress from the call of executeIngestion to its return.
Active(r) == pc[r] \notin { "off", "done", "exited" }


\* --------------------------------------------------------------- FieldMapper
\* FieldMapper.mapSingleTransaction: the header is seeded with invoice_no 0 and
\* a rule overwrites it only with a value that is neither undefined nor null.
mapSingleTransaction(rec) ==
    [ invoice_no |-> IF rec.inv = Undefined THEN 0 ELSE rec.inv,
      items |-> rec.items, payments |-> rec.pays, bad |-> rec.bad ]

\* FieldMapper.mapTransactions raises when the row root resolves to nothing.
mapTransactionsRaises(raw) == raw.kind = "noroot"

mapTransactions(raw) == [ k \in 1..Len(raw.rows) |-> mapSingleTransaction(raw.rows[k]) ]

\* ------------------------------------------------------------- the database
\* Rows a statement on r's client sees: the committed rows and the rows of
\* r's own open transaction (READ COMMITTED).
VisibleHdr(r) == raw_transactions \cup pend[r].hdr
VisibleItm(r) == raw_transaction_items \cup pend[r].itm
VisiblePay(r) == raw_payment \cup pend[r].pay

\* client.query rejects on a lost connection and, after a statement error,
\* on every statement until the transaction ends.
QueryFails(r) == client[r] \in { "aborted", "lost" }

\* An existence check that looks only at the rows of its own transaction.
checkOwnRowsOnly(r, t) ==
    \E row \in pend[r].hdr :
        row.invoice_no = t.invoice_no /\ row.outlet_name = cfgIdx[r]

\* DataInserter.checkTransactionExists: SELECT 1 FROM raw_transactions WHERE
\* invoice_no = $1 AND brand_name = $2 AND outlet_name = $3 (every
\* configuration of the model has the same brand; outlet c belongs to
\* configuration c).
checkTransactionExists(r, t) ==
    \E row \in VisibleHdr(r) :
        row.invoice_no = t.invoice_no /\ row.outlet_name = cfgIdx[r]

checkItemsExist(r, t) ==
    \E row \in VisibleItm(r) :
        row.invoice_no = t.invoice_no /\ row.outlet_name = cfgIdx[r]

checkPaymentsExist(r, t) ==
    \E row \in VisiblePay(r) :
        row.invoice_no = t.invoice_no /\ row.outlet_name = cfgIdx[r]

\* The row of transaction k of r's batch: transaction_id is a fresh uuid,
\* here the batch and the position.
Row(r, k) ==
    [ invoice_no |-> loc[r].transactions[k].invoice_no,
      outlet_name |-> cfgIdx[r],
      transaction_id |-> << r, cfgIdx[r], k >> ]

PayRows(r, k) ==
    { [ invoice_no |-> loc[r].transactions[k].invoice_no,
        outlet_name |-> cfgIdx[r],
        transaction_id |-> << r, cfgIdx[r], k >>,
        n |-> n ] : n \in 1..loc[r].transactions[k].payments }

\* Rows of one batch in a table.
RowsOf(table, b) ==
    { row \in table : row.transaction_id[1] = b[1] /\ row.transaction_id[2] = b[2] }

\* What ROLLBACK (or a lost connection) leaves of the rows written in the
\* open transaction.
AfterRollback(p) == NoRows

\* ------------------------------------------------------------------ init
Init ==
    /\ startupPc = "startup"
    /\ isValidated = FALSE
    /\ cronJob = "null"
    /\ pc = [ r \in Runners |-> "off" ]
    /\ nActive = [ r \in Runners |-> 0 ]
    /\ cfgIdx = [ r \in Runners |-> 1 ]
    /\ loc = [ r \in Runners |-> FreshLocals ]
    /\ client = [ r \in Runners |-> "null" ]
    /\ pend = [ r \in Runners |-> NoRows ]
    /\ raw_transactions = {}
    /\ raw_transaction_items = {}
    /\ raw_payment = {}
    /\ raw_exceptions = {}
    /\ ingestion_log = {}
    /\ batchFailed = {}
    /\ rollbackIssued = {}
    /\ logRejected = {}
    /\ raised = {}
    /\ call = "none"
    /\ args = << >>
    /\ result = << >>
    /\ envFaults = {}
    /\ hdrAtBegin = [ r \in Runners |-> {} ]
    /\ overlapped = FALSE

\* ------------------------------------------------------------- index.js
\* A startup that schedules the timer whatever the validation says.
StartupAlwaysSchedules ==
    /\ startupPc = "startup"
    /\ cronJob' = "scheduled"
    /\ \/ /\ isValidated' = TRUE
          /\ startupPc' = "initial"
       \/ /\ isValidated' = FALSE
          /\ startupPc' = "waiting"
    /\ UNCHANGED << pc, cycVars, loc, client, pend, dbVars, ingestion_log, histVars >>
    /\ UNCHANGED pureVars

\* startup(): validation decides; only when it passes is the timer scheduled
\* (startCronJob) and isValidated set.
Startup ==
    /\ startupPc = "startup"
    /\ \/ /\ cronJob' = "scheduled"
          /\ isValidated' = TRUE
          /\ startupPc' = "initial"
       \/ /\ isValidated' = FALSE
          /\ startupPc' = "waiting"
          /\ UNCHANGED cronJob
    /\ UNCHANGED << pc, cycVars, loc, client, pend, dbVars, ingestion_log, histVars >>
    /\ UNCHANGED pureVars

\* runInitialIngestion(): calls executeIngestion once, as cycle 0.
RunInitialIngestion ==
    /\ startupPc = "initial"
    /\ isValidated
    /\ startupPc' = "running"
    /\ pc' = [ pc EXCEPT ![0] = "cycle" ]
    /\ UNCHANGED << isValidated, cronJob, cycVars, loc, client, pend, dbVars,
                    ingestion_log, histVars >>
    /\ UNCHANGED pureVars

\* The cron callback: node-cron calls it at every match of the expression,
\* whether or not an earlier call has returned; it calls executeIngestion.
\* (runInitialIngestion runs in the continuation of `await startup()`, before
\* any timer callback.)
CronTick(r) ==
    /\ r >= 1
    /\ cronJob = "scheduled"
    /\ startupPc = "running"
    /\ pc[r] = "off"
    /\ \A q \in 1..(r - 1) : pc[q] # "off"
    /\ pc' = [ pc EXCEPT ![r] = "cycle" ]
    /\ overlapped' = (overlapped \/ \E q \in Runners : Active(q))
    /\ UNCHANGED << schedVars, cycVars, loc, client, pend, dbVars, ingestion_log,
                    batchFailed, rollbackIssued, logRejected, raised, envFaults, hdrAtBegin >>
    /\ UNCHANGED pureVars

\* gracefulShutdown(signal), the handler of SIGINT and SIGTERM: stops the cron
\* job when there is one, then process.exit(0).  Every cycle in progress ends
\* where it is; a batch transaction that is open is left without COMMIT or
\* ROLLBACK (the server discards it when the socket closes).  (A handler runs
\* between two callbacks, not between the resolution of startup() and the
\* continuation that calls runInitialIngestion.)
GracefulShutdown(signal) ==
    /\ startupPc \notin { "initial", "exited" }
    /\ cronJob' = IF cronJob = "scheduled" THEN "stopped" ELSE cronJob
    /\ startupPc' = "exited"
    /\ pc' = [ r \in Runners |-> "exited" ]
    /\ client' = [ r \in Runners |->
                     IF client[r] \in { "open", "aborted" } THEN "abandoned" ELSE client[r] ]
    /\ pend' = [ r \in Runners |-> AfterRollback(pend[r]) ]
    /\ UNCHANGED << isValidated, cycVars, loc, dbVars, ingestion_log, histVars >>
    /\ UNCHANGED pureVars

\* ------------------------------------------------- executeIngestion
\* loadVendorFilter and getActiveConfigs resolve to n configurations; the for
\* loop calls processConfig for the first, or the cycle is completed.
GetActiveConfigsIn(r, counts) ==
    /\ pc[r] = "cycle"
    /\ \E n \in counts :
         /\ nActive' = [ nActive EXCEPT ![r] = n ]
         /\ pc' = [ pc EXCEPT ![r] = IF n = 0 THEN "done" ELSE "fetch" ]
    /\ cfgIdx' = [ cfgIdx EXCEPT ![r] = 1 ]
    /\ loc' = [ loc EXCEPT ![r] = FreshLocals ]
    /\ UNCHANGED << schedVars, client, pend, dbVars, ingestion_log, histVars >>
    /\ UNCHANGED pureVars

GetActiveConfigs(r) == GetActiveConfigsIn(r, 0..NConfigs)

\* A deployment with exactly one active configuration.
GetOneActiveConfig(r) == GetActiveConfigsIn(r, {1})

\* A for loop of executeIngestion that ends at the first failed configuration.
StopAfterFailedEntry == "done"

\* Where the for loop of executeIngestion goes when processConfig has
\* written its FAILED entry and returned: on to the next configuration.
AfterFailedEntry == "returned"

\* processConfig returned (its finally released the client): the for loop
\* of executeIngestion calls processConfig for the next configuration, or
\* the cycle is completed.
NextConfig(r) ==
    /\ pc[r] = "returned"
    /\ IF cfgIdx[r] < nActive[r]
       THEN /\ cfgIdx' = [ cfgIdx EXCEPT ![r] = @ + 1 ]
            /\ pc' = [ pc EXCEPT ![r] = "fetch" ]
            /\ loc' = [ loc EXCEPT ![r] = FreshLocals ]
       ELSE /\ pc' = [ pc EXCEPT ![r] = "done" ]
            /\ UNCHANGED << cfgIdx, loc >>
    /\ UNCHANGED << schedVars, nActive, client, pend, dbVars, ingestion_log, histVars >>
    /\ UNCHANGED pureVars

\* A no-data test that lets an empty array through.
NoDataNullOnly(raw) == raw.kind = "null"

\* A step 4 that does not wait for mapTransactions.
CanBeginUnmapped(r) == pc[r] \in { "map", "begin" }

\* A skip that is counted as an inserted record.
SkippedAsInserted(r) ==
    [ loc[r] EXCEPT !.totalRecords = @ + 1, !.outcome = Append(@, "skipped"),
                    !.i = @ + 1 ]

\* An inner catch that swallows the error: the flow goes on to COMMIT.
SwallowedByLoop == "commit"

\* ------------------------------------------------------- processConfig
\* `if (!rawData || (Array.isArray(rawData) && rawData.length === 0)) return`
NoData(raw) == raw.kind = "null" \/ (raw.kind = "array" /\ Len(raw.rows) = 0)

\* Step 4 is reached only after `await mapper.mapTransactions(rawData)` returned.
CanBegin(r) == pc[r] = "begin"

\* The third argument processConfig passes to insertPayments:
\* `inserter.insertPayments(client, transaction.payments)` passes none.
PaymentsArgDefined == FALSE

\* insertPayments reads transaction.invoice_no right after the empty check:
\* a TypeError when `transaction` is undefined.
insertPaymentsRaises(argDefined) == ~argDefined

\* A per-record catch that does not count the record.
CaughtUncounted(r) ==
    [ loc[r] EXCEPT !.outcome = Append(@, "errored") ]

\* The per-record catch: totalErrors++, then logException on the same client.
Caught(r) ==
    [ loc[r] EXCEPT !.totalErrors = @ + 1, !.outcome = Append(@, "errored") ]

\* The end of one iteration of the for loop over `transactions`.
LoopPc(l) == IF l.i > Len(l.transactions) THEN "commit" ELSE "check"

Skipped(r) ==
    [ loc[r] EXCEPT !.totalSkipped = @ + 1, !.outcome = Append(@, "skipped"),
                    !.i = @ + 1 ]

Inserted(r) ==
    [ loc[r] EXCEPT !.totalRecords = @ + 1, !.outcome = Append(@, "inserted"),
                    !.i = @ + 1 ]

\* Where an error that leaves the for loop (or a rejected COMMIT) goes: the
\* inner catch, which sends ROLLBACK and throws the error again.
InnerCatch == "rollback"

\* The row logIngestion inserts.
LogRow(r, status) ==
    [ batch_id |-> BatchId(r), status |-> status,
      records_count |-> IF status = "SUCCESS" THEN loc[r].totalRecords ELSE 0,
      errors_count |-> IF status = "SUCCESS" THEN loc[r].totalErrors ELSE 1,
      skippedCount |-> IF status = "SUCCESS" THEN loc[r].totalSkipped ELSE 0 ]

\* Step 1: fetcher.fetchData() raises (unknown source type, transport, auth)
\* or resolves to a payload; nothing fetched ends processConfig.
FetchDataIn(r, payloads) ==
    /\ pc[r] = "fetch"
    /\ \/ /\ pc' = [ pc EXCEPT ![r] = "logFailed" ]
          /\ raised' = raised \cup { BatchId(r) }
          /\ UNCHANGED loc
       \/ \E raw \in payloads :
            /\ loc' = [ loc EXCEPT ![r].rawData = raw ]
            /\ pc' = [ pc EXCEPT ![r] = IF NoData(raw) THEN "returned" ELSE "mappings" ]
            /\ UNCHANGED raised
    /\ UNCHANGED << schedVars, cycVars, client, pend, dbVars, ingestion_log, batchFailed,
                    rollbackIssued, logRejected, envFaults, hdrAtBegin, overlapped >>
    /\ UNCHANGED pureVars

FetchData(r) == FetchDataIn(r, RawPayloads)

\* Step 2: ConfigModel.getAllFieldMappings
GetAllFieldMappings(r) ==
    /\ pc[r] = "mappings"
    /\ loc' = [ loc EXCEPT ![r].allMappings = TRUE ]
    /\ pc' = [ pc EXCEPT ![r] = "map" ]
    /\ UNCHANGED << schedVars, cycVars, client, pend, dbVars, ingestion_log, histVars >>
    /\ UNCHANGED pureVars

\* Step 3: mapper.mapTransactions(rawData)
MapTransactions(r) ==
    /\ pc[r] = "map"
    /\ IF mapTransactionsRaises(loc[r].rawData)
       THEN /\ pc' = [ pc EXCEPT ![r] = "logFailed" ]
            /\ raised' = raised \cup { BatchId(r) }
            /\ UNCHANGED loc
       ELSE /\ loc' = [ loc EXCEPT ![r].transactions = mapTransactions(loc[r].rawData),
                                   ![r].mapped = TRUE ]
            /\ pc' = [ pc EXCEPT ![r] = "begin" ]
            /\ UNCHANGED raised
    /\ UNCHANGED << schedVars, cycVars, client, pend, dbVars, ingestion_log, batchFailed,
                    rollbackIssued, logRejected, envFaults, hdrAtBegin, overlapped >>
    /\ UNCHANGED pureVars

\* Step 4: pool.connect() and BEGIN
Begin(r) ==
    /\ CanBegin(r)
    /\ client' = [ client EXCEPT ![r] = "open" ]
    /\ pend' = [ pend EXCEPT ![r] = NoRows ]
    /\ pc' = [ pc EXCEPT ![r] = LoopPc(loc[r]) ]
    /\ hdrAtBegin' = [ hdrAtBegin EXCEPT ![r] = raw_transactions ]
    /\ UNCHANGED << schedVars, cycVars, loc, dbVars, ingestion_log, batchFailed,
                    rollbackIssued, logRejected, raised, envFaults, overlapped >>
    /\ UNCHANGED pureVars

\* inserter.checkTransactionExists(client, transaction)
CheckExists(r) ==
    /\ pc[r] = "check"
    /\ LET t == loc[r].transactions[loc[r].i]
       IN  IF QueryFails(r)
           THEN /\ loc' = [ loc EXCEPT ![r] = Caught(r) ]
                /\ pc' = [ pc EXCEPT ![r] = "exc" ]
           ELSE IF checkTransactionExists(r, t)
           THEN /\ loc' = [ loc EXCEPT ![r] = Skipped(r) ]
                /\ pc' = [ pc EXCEPT ![r] = LoopPc(Skipped(r)) ]
           ELSE /\ pc' = [ pc EXCEPT ![r] = "hdr" ]
                /\ UNCHANGED loc
    /\ UNCHANGED << schedVars, cycVars, client, pend, dbVars, ingestion_log, histVars >>
    /\ UNCHANGED pureVars

\* Where the loop body goes after the header (k = 1), the items (k = 2) or
\* the payments (k = 3) of transaction t were handled.
AfterStage(t, k) ==
    IF k < 2 /\ t.items THEN "items"
    ELSE IF k < 3 /\ t.payments > 0 THEN "pay"
    ELSE "counted"

\* inserter.insertTransaction(client, transaction): the INSERT of the header.
\* A rejected INSERT leaves the transaction aborted.
InsertTransaction(r) ==
    /\ pc[r] = "hdr"
    /\ LET t == loc[r].transactions[loc[r].i]
           next == AfterStage(t, 1)
       IN  IF QueryFails(r) \/ t.bad
           THEN /\ loc' = [ loc EXCEPT ![r] = Caught(r) ]
                /\ pc' = [ pc EXCEPT ![r] = "exc" ]
                /\ client' = [ client EXCEPT ![r] = IF @ = "open" THEN "aborted" ELSE @ ]
                /\ UNCHANGED pend
           ELSE /\ pend' = [ pend EXCEPT ![r].hdr = @ \cup { Row(r, loc[r].i) } ]
                /\ loc' = [ loc EXCEPT ![r] = IF next = "counted" THEN Inserted(r) ELSE @ ]
                /\ pc' = [ pc EXCEPT ![r] =
                             IF next = "counted" THEN LoopPc(Inserted(r)) ELSE next ]
                /\ UNCHANGED client
    /\ UNCHANGED << schedVars, cycVars, dbVars, ingestion_log, histVars >>
    /\ UNCHANGED pureVars

\* inserter.insertTransactionItems(client, items, transaction): the items
\* existence check, then one aggregated row.
InsertTransactionItems(r) ==
    /\ pc[r] = "items"
    /\ LET t == loc[r].transactions[loc[r].i]
           next == AfterStage(t, 2)
       IN  IF QueryFails(r)
           THEN /\ loc' = [ loc EXCEPT ![r] = Caught(r) ]
                /\ pc' = [ pc EXCEPT ![r] = "exc" ]
                /\ UNCHANGED pend
           ELSE /\ pend' = [ pend EXCEPT ![r].itm =
                               IF checkItemsExist(r, t) THEN @ ELSE @ \cup { Row(r, loc[r].i) } ]
                /\ loc' = [ loc EXCEPT ![r] = IF next = "counted" THEN Inserted(r) ELSE @ ]
                /\ pc' = [ pc EXCEPT ![r] =
                             IF next = "counted" THEN LoopPc(Inserted(r)) ELSE next ]
    /\ UNCHANGED << schedVars, cycVars, client, dbVars, ingestion_log, histVars >>
    /\ UNCHANGED pureVars

\* inserter.insertPayments(client, transaction.payments [, transaction]): the
\* payments existence check, then one row per payment.
InsertPayments(r) ==
    /\ pc[r] = "pay"
    /\ LET t == loc[r].transactions[loc[r].i]
       IN  IF insertPaymentsRaises(PaymentsArgDefined) \/ QueryFails(r)
           THEN /\ loc' = [ loc EXCEPT ![r] = Caught(r) ]
                /\ pc' = [ pc EXCEPT ![r] = "exc" ]
                /\ UNCHANGED pend
           ELSE /\ pend' = [ pend EXCEPT ![r].pay =
                               IF checkPaymentsExist(r, t) THEN @ ELSE @ \cup PayRows(r, loc[r].i) ]
                /\ loc' = [ loc EXCEPT ![r] = Inserted(r) ]
                /\ pc' = [ pc EXCEPT ![r] = LoopPc(Inserted(r)) ]
    /\ UNCHANGED << schedVars, cycVars, client, dbVars, ingestion_log, histVars >>
    /\ UNCHANGED pureVars

\* inserter.logException(client, ...) inside the per-record catch: an INSERT
\* on the same client; when it rejects, the error leaves the loop.
LogException(r) ==
    /\ pc[r] = "exc"
    /\ IF QueryFails(r)
       THEN /\ pc' = [ pc EXCEPT ![r] = InnerCatch ]
            /\ batchFailed' = batchFailed \cup { BatchId(r) }
            /\ UNCHANGED << loc, pend >>
       ELSE /\ pend' = [ pend EXCEPT ![r].exc = @ \cup { Row(r, loc[r].i) } ]
            /\ loc' = [ loc EXCEPT ![r].i = @ + 1 ]
            /\ pc' = [ pc EXCEPT ![r] = LoopPc([ loc[r] EXCEPT !.i = @ + 1 ]) ]
            /\ UNCHANGED batchFailed
    /\ UNCHANGED << schedVars, cycVars, client, dbVars, ingestion_log,
                    rollbackIssued, logRejected, raised, envFaults, hdrAtBegin, overlapped >>
    /\ UNCHANGED pureVars

\* client.query('COMMIT'): the rows of the transaction become visible to all.
\* (PostgreSQL answers COMMIT in an aborted transaction with ROLLBACK and no
\* error; on a lost connection the statement rejects.)
Commit(r) ==
    /\ pc[r] = "commit"
    /\ \/ /\ client[r] = "open"
          /\ raw_transactions' = raw_transactions \cup pend[r].hdr
          /\ raw_transaction_items' = raw_transaction_items \cup pend[r].itm
          /\ raw_payment' = raw_payment \cup pend[r].pay
          /\ raw_exceptions' = raw_exceptions \cup pend[r].exc
          /\ pc' = [ pc EXCEPT ![r] = "logOk" ]
          /\ client' = [ client EXCEPT ![r] = "idle" ]
          /\ UNCHANGED batchFailed
       \/ /\ client[r] = "aborted"
          /\ pc' = [ pc EXCEPT ![r] = "logOk" ]
          /\ client' = [ client EXCEPT ![r] = "idle" ]
          /\ UNCHANGED << dbVars, batchFailed >>
       \/ /\ client[r] = "lost"
          /\ pc' = [ pc EXCEPT ![r] = InnerCatch ]
          /\ batchFailed' = batchFailed \cup { BatchId(r) }
          /\ UNCHANGED << dbVars, client >>
    /\ pend' = [ pend EXCEPT ![r] = NoRows ]
    /\ UNCHANGED << schedVars, cycVars, loc, ingestion_log, rollbackIssued,
                    logRejected, raised, envFaults, hdrAtBegin, overlapped >>
    /\ UNCHANGED pureVars

\* COMMIT is refused by the server (a deferred check, a deadlock victim): the
\* transaction is discarded and the statement rejects.
CommitRefused(r) ==
    /\ pc[r] = "commit"
    /\ client[r] = "open"
    /\ pend' = [ pend EXCEPT ![r] = AfterRollback(@) ]
    /\ client' = [ client EXCEPT ![r] = "idle" ]
    /\ pc' = [ pc EXCEPT ![r] = InnerCatch ]
    /\ batchFailed' = batchFailed \cup { BatchId(r) }
    /\ envFaults' = envFaults \cup { BatchId(r) }
    /\ UNCHANGED << schedVars, cycVars, loc, dbVars, ingestion_log, rollbackIssued,
                    logRejected, raised, hdrAtBegin, overlapped >>
    /\ UNCHANGED pureVars

\* Step 5: inserter.logIngestion({... status: 'SUCCESS' ...}) through
\* pool.query; processConfig then returns through its finally.
LogSuccess(r) ==
    /\ pc[r] = "logOk"
    /\ ingestion_log' = ingestion_log \cup { LogRow(r, "SUCCESS") }
    /\ pc' = [ pc EXCEPT ![r] = "returned" ]
    /\ client' = [ client EXCEPT ![r] = "null" ]
    /\ UNCHANGED << schedVars, cycVars, loc, pend, dbVars, histVars >>
    /\ UNCHANGED pureVars

\* The SUCCESS write rejects: it is inside the inner try, so its catch runs.
LogSuccessRejected(r) ==
    /\ pc[r] = "logOk"
    /\ logRejected' = logRejected \cup { << BatchId(r), "SUCCESS" >> }
    /\ envFaults' = envFaults \cup { BatchId(r) }
    /\ pc' = [ pc EXCEPT ![r] = InnerCatch ]
    /\ UNCHANGED << schedVars, cycVars, loc, client, pend, dbVars, ingestion_log,
                    batchFailed, rollbackIssued, raised, hdrAtBegin, overlapped >>
    /\ UNCHANGED pureVars

\* The inner catch: client.query('ROLLBACK'), then the error is thrown again
\* (on a lost connection ROLLBACK itself rejects; either way the outer catch
\* is next).
Rollback(r) ==
    /\ pc[r] = "rollback"
    /\ rollbackIssued' = rollbackIssued \cup { BatchId(r) }
    /\ pend' = [ pend EXCEPT ![r] = AfterRollback(@) ]
    /\ client' = [ client EXCEPT ![r] = IF @ = "lost" THEN @ ELSE "idle" ]
    /\ pc' = [ pc EXCEPT ![r] = "logFailed" ]
    /\ raised' = raised \cup { BatchId(r) }
    /\ UNCHANGED << schedVars, cycVars, loc, dbVars, ingestion_log, batchFailed,
                    logRejected, envFaults, hdrAtBegin, overlapped >>
    /\ UNCHANGED pureVars

\* The outer catch: inserter.logIngestion({... status: 'FAILED',
\* records_count: 0 ...}); processConfig then returns through its finally.
LogFailed(r) ==
    /\ pc[r] = "logFailed"
    /\ ingestion_log' = ingestion_log \cup { LogRow(r, "FAILED") }
    /\ pc' = [ pc EXCEPT ![r] = AfterFailedEntry ]
    /\ client' = [ client EXCEPT ![r] = "null" ]
    /\ UNCHANGED << schedVars, cycVars, loc, pend, dbVars, histVars >>
    /\ UNCHANGED pureVars

\* The FAILED write rejects: the rejection leaves processConfig (after its
\* finally) and ends the for loop of executeIngestion in its catch.
LogFailedRejected(r) ==
    /\ pc[r] = "logFailed"
    /\ logRejected' = logRejected \cup { << BatchId(r), "FAILED" >> }
    /\ envFaults' = envFaults \cup { BatchId(r) }
    /\ pc' = [ pc EXCEPT ![r] = "done" ]
    /\ client' = [ client EXCEPT ![r] = "null" ]
    /\ UNCHANGED << schedVars, cycVars, loc, pend, dbVars, ingestion_log,
                    batchFailed, rollbackIssued, raised, hdrAtBegin, overlapped >>
    /\ UNCHANGED pureVars

\* The connection of a client with an open transaction is lost: the server
\* discards the transaction, every later statement on the client rejects.
ConnectionLost(r) ==
    /\ client[r] \in { "open", "aborted" }
    /\ client' = [ client EXCEPT ![r] = "lost" ]
    /\ pend' = [ pend EXCEPT ![r] = AfterRollback(@) ]
    /\ envFaults' = envFaults \cup { BatchId(r) }
    /\ UNCHANGED << schedVars, pc, cycVars, loc, dbVars, ingestion_log, batchFailed,
                    rollbackIssued, logRejected, raised, hdrAtBegin, overlapped >>
    /\ UNCHANGED pureVars

\* ------------------------------------------------ the queue worker
\* The worker process takes the jobs of the vendor queue; cycle numbers from
\* 1 on stand for its jobs.
QueueJobs == Runners \ { 0 }

\* The canonical transactions a job's mapper can hand to the inserter.
JobTransactions ==
    { mapTransactions(raw) : raw \in { p \in RawPayloads : p.kind = "array" } }

\* The end of one iteration of the for loop of insertTransactions.
QueueLoopPc(l) == IF l.i > Len(l.transactions) THEN "qcommit" ELSE "qcheck"

\* processVendorData(job): the configuration of the job is read (a job for
\* an unknown configuration fails), the data are mapped, and
\* inserter.insertTransactions(transactions) is called.
ProcessVendorData(r) ==
    /\ r \in QueueJobs
    /\ pc[r] = "off"
    /\ \A q \in 1..(r - 1) : pc[q] # "off"
    /\ \/ /\ pc' = [ pc EXCEPT ![r] = "qfailed" ]
          /\ UNCHANGED << cfgIdx, loc >>
       \/ \E c \in Configs : \E txs \in JobTransactions :
            /\ cfgIdx' = [ cfgIdx EXCEPT ![r] = c ]
            /\ loc' = [ loc EXCEPT ![r] =
                          [ FreshLocals EXCEPT !.allMappings = TRUE, !.mapped = TRUE,
                                               !.transactions = txs ] ]
            /\ pc' = [ pc EXCEPT ![r] = "qbegin" ]
    /\ UNCHANGED << schedVars, nActive, client, pend, dbVars, ingestion_log, histVars >>
    /\ UNCHANGED pureVars

\* insertTransactions: pool.connect(), client.query('BEGIN').
QueueBegin(r) ==
    /\ pc[r] = "qbegin"
    /\ client' = [ client EXCEPT ![r] = "open" ]
    /\ pend' = [ pend EXCEPT ![r] = NoRows ]
    /\ pc' = [ pc EXCEPT ![r] = QueueLoopPc(loc[r]) ]
    /\ hdrAtBegin' = [ hdrAtBegin EXCEPT ![r] = raw_transactions ]
    /\ UNCHANGED << schedVars, cycVars, loc, dbVars, ingestion_log, batchFailed,
                    rollbackIssued, logRejected, raised, envFaults, overlapped >>
    /\ UNCHANGED pureVars

\* insertTransactions: this.checkTransactionExists(client, transaction).
QueueCheckExists(r) ==
    /\ pc[r] = "qcheck"
    /\ LET t == loc[r].transactions[loc[r].i]
       IN  IF QueryFails(r)
           THEN /\ loc' = [ loc EXCEPT ![r] = Caught(r) ]
                /\ pc' = [ pc EXCEPT ![r] = "qexc" ]
           ELSE IF checkTransactionExists(r, t)
           THEN /\ loc' = [ loc EXCEPT ![r] = Skipped(r) ]
                /\ pc' = [ pc EXCEPT ![r] = QueueLoopPc(Skipped(r)) ]
           ELSE /\ pc' = [ pc EXCEPT ![r] = "qhdr" ]
                /\ UNCHANGED loc
    /\ UNCHANGED << schedVars, cycVars, client, pend, dbVars, ingestion_log, histVars >>
    /\ UNCHANGED pureVars

\* insertTransactions: this.insertTransaction(client, transaction), then
\* successCount++.  Neither the items nor the payments of the transaction
\* are written on this path.
QueueInsertTransaction(r) ==
    /\ pc[r] = "qhdr"
    /\ LET t == loc[r].transactions[loc[r].i]
       IN  IF QueryFails(r) \/ t.bad
           THEN /\ loc' = [ loc EXCEPT ![r] = Caught(r) ]
                /\ pc' = [ pc EXCEPT ![r] = "qexc" ]
                /\ client' = [ client EXCEPT ![r] = IF @ = "open" THEN "aborted" ELSE @ ]
                /\ UNCHANGED pend
           ELSE /\ pend' = [ pend EXCEPT ![r].hdr = @ \cup { Row(r, loc[r].i) } ]
                /\ loc' = [ loc EXCEPT ![r] = Inserted(r) ]
                /\ pc' = [ pc EXCEPT ![r] = QueueLoopPc(Inserted(r)) ]
                /\ UNCHANGED client
    /\ UNCHANGED << schedVars, cycVars, dbVars, ingestion_log, histVars >>
    /\ UNCHANGED pureVars

\* insertTransactions: the per-record catch, errorCount++ and
\* this.logException(client, ...) on the same client.
QueueLogException(r) ==
    /\ pc[r] = "qexc"
    /\ IF QueryFails(r)
       THEN /\ pc' = [ pc EXCEPT ![r] = "qrollback" ]
            /\ batchFailed' = batchFailed \cup { BatchId(r) }
            /\ UNCHANGED << loc, pend >>
       ELSE /\ pend' = [ pend EXCEPT ![r].exc = @ \cup { Row(r, loc[r].i) } ]
            /\ loc' = [ loc EXCEPT ![r].i = @ + 1 ]
            /\ pc' = [ pc EXCEPT ![r] = QueueLoopPc([ loc[r] EXCEPT !.i = @ + 1 ]) ]
            /\ UNCHANGED batchFailed
    /\ UNCHANGED << schedVars, cycVars, client, dbVars, ingestion_log,
                    rollbackIssued, logRejected, raised, envFaults, hdrAtBegin, overlapped >>
    /\ UNCHANGED pureVars

\* insertTransactions: client.query('COMMIT'), the counts are returned and
\* the client released.
QueueCommit(r) ==
    /\ pc[r] = "qcommit"
    /\ client[r] = "open"
    /\ raw_transactions' = raw_transactions \cup pend[r].hdr
    /\ raw_transaction_items' = raw_transaction_items \cup pend[r].itm
    /\ raw_payment' = raw_payment \cup pend[r].pay
    /\ raw_exceptions' = raw_exceptions \cup pend[r].exc
    /\ pend' = [ pend EXCEPT ![r] = NoRows ]
    /\ client' = [ client EXCEPT ![r] = "null" ]
    /\ pc' = [ pc EXCEPT ![r] = "qdone" ]
    /\ UNCHANGED << schedVars, cycVars, loc, ingestion_log, histVars >>
    /\ UNCHANGED pureVars

\* insertTransactions: the catch sends ROLLBACK and throws again, the client
\* is released; processVendorData throws and the job has failed.
QueueRollback(r) ==
    /\ pc[r] = "qrollback"
    /\ rollbackIssued' = rollbackIssued \cup { BatchId(r) }
    /\ raised' = raised \cup { BatchId(r) }
    /\ pend' = [ pend EXCEPT ![r] = AfterRollback(@) ]
    /\ client' = [ client EXCEPT ![r] = "null" ]
    /\ pc' = [ pc EXCEPT ![r] = "qfailed" ]
    /\ UNCHANGED << schedVars, cycVars, loc, dbVars, ingestion_log, batchFailed,
                    logRejected, envFaults, hdrAtBegin, overlapped >>
    /\ UNCHANGED pureVars

\* --------------------------------------------------------- the groupers
\* Every variable of the agent's cycles.
programVars == << schedVars, pc, cycVars, loc, client, pend, dbVars, ingestion_log,
                 histVars >>

\* A correlation value as the property name it becomes in `grouped[...]`:
\* the decimal digits of v (digits), or a text that is not an array index
\* (the receipt "R" v); a row without the field gives `undefined`.
MissingKey == [ digits |-> FALSE, v |-> 0 ]
ReceiptKeys == [ digits : BOOLEAN, v : 1..MaxReceipt ]
RowKeys == ReceiptKeys \cup { MissingKey }

\* The rows of one segment: row i carries its correlation value and is told
\* from the other rows by its position.
SegmentRows(keys) == [ i \in 1..Len(keys) |-> [ key |-> keys[i], id |-> i ] ]
Segments == { SegmentRows(keys) : keys \in SeqsUpTo(RowKeys, MaxRows) }

\* `transaction: null`
NullRow == [ key |-> MissingKey, id |-> 0 ]

\* `if (!receipt) continue`
Falsy(k) == k = MissingKey

\* A JavaScript object used as a dictionary: its entries in insertion order.
Has(obj, k) == \E i \in 1..Len(obj) : obj[i].key = k
Get(obj, k) == obj[CHOOSE i \in 1..Len(obj) : obj[i].key = k].val
Put(obj, k, val) ==
    IF Has(obj, k)
    THEN [ i \in 1..Len(obj) |-> IF obj[i].key = k THEN [ key |-> k, val |-> val ] ELSE obj[i] ]
    ELSE Append(obj, [ key |-> k, val |-> val ])

\* Property enumeration order of a JavaScript object (OrdinaryOwnPropertyKeys):
\* first the array-index names in ascending numeric order, then the other
\* names in insertion order.
RECURSIVE Ascending(_)
Ascending(ks) ==
    IF ks = {} THEN << >>
    ELSE LET least == CHOOSE k \in ks : \A other \in ks : k.v <= other.v
         IN  << least >> \o Ascending(ks \ { least })

ObjectKeys(obj) ==
    LET names == [ i \in 1..Len(obj) |-> obj[i].key ]
        IsText(k) == ~k.digits
    IN  Ascending({ names[i] : i \in { j \in 1..Len(obj) : names[j].digits } })
            \o SelectSeq(names, IsText)

ObjectValues(obj) ==
    LET ks == ObjectKeys(obj)
    IN  [ i \in 1..Len(ks) |-> Get(obj, ks[i]) ]

\* The object literal of a group.
NewGroup(k, tx) == [ key |-> k, transaction |-> tx, items |-> << >>, payments |-> << >> ]

\* An insertion at the front of the collection.
unshift(list, row) == << row >> \o list

\* `grouped[receipt].items.push(item)`
push(list, row) == Append(list, row)

\* groupByReceiptNoFromSoap: the loop over the transaction segment.
RECURSIVE SoapTransactions(_, _)
SoapTransactions(grouped, rows) ==
    IF rows = << >> THEN grouped
    ELSE LET tx == Head(rows)
         IN  SoapTransactions(
                 IF Falsy(tx.key) THEN grouped
                 ELSE Put(grouped, tx.key, NewGroup(tx.key, tx)),
                 Tail(rows))

\* groupByReceiptNoFromSoap: the loop over the item segment.
RECURSIVE SoapItems(_, _)
SoapItems(grouped, rows) ==
    IF rows = << >> THEN grouped
    ELSE LET item == Head(rows)
             g == IF Has(grouped, item.key) THEN Get(grouped, item.key)
                  ELSE NewGroup(item.key, NullRow)
         IN  SoapItems(
                 IF Falsy(item.key) THEN grouped
                 ELSE Put(grouped, item.key, [ g EXCEPT !.items = push(@, item) ]),
                 Tail(rows))

\* groupByReceiptNoFromSoap: the loop over the payment segment.
RECURSIVE SoapPayments(_, _)
SoapPayments(grouped, rows) ==
    IF rows = << >> THEN grouped
    ELSE LET pay == Head(rows)
             g == IF Has(grouped, pay.key) THEN Get(grouped, pay.key)
                  ELSE NewGroup(pay.key, NullRow)
         IN  SoapPayments(
                 IF Falsy(pay.key) THEN grouped
                 ELSE Put(grouped, pay.key, [ g EXCEPT !.payments = push(@, pay) ]),
                 Tail(rows))

groupByReceiptNoFromSoap(data) ==
    ObjectValues(SoapPayments(SoapItems(SoapTransactions(<< >>, data.transactions),
                                        data.items),
                              data.payments))

\* groupByReceiptmultiapi: transactions.forEach; the value of RCPT_NUM is
\* used as it is, also when the row has none.
RECURSIVE MultiTransactions(_, _)
MultiTransactions(grouped, rows) ==
    IF rows = << >> THEN grouped
    ELSE LET txn == Head(rows)
             g == IF Has(grouped, txn.key) THEN Get(grouped, txn.key)
                  ELSE NewGroup(txn.key, NullRow)
         IN  MultiTransactions(Put(grouped, txn.key, [ g EXCEPT !.transaction = txn ]),
                               Tail(rows))

\* groupByReceiptmultiapi: items.forEach.
RECURSIVE MultiItems(_, _)
MultiItems(grouped, rows) ==
    IF rows = << >> THEN grouped
    ELSE LET item == Head(rows)
             g == IF Has(grouped, item.key) THEN Get(grouped, item.key)
                  ELSE NewGroup(item.key, NullRow)
         IN  MultiItems(Put(grouped, item.key, [ g EXCEPT !.items = push(@, item) ]),
                        Tail(rows))

\* groupByReceiptmultiapi: payments.forEach.
RECURSIVE MultiPayments(_, _)
MultiPayments(grouped, rows) ==
    IF rows = << >> THEN grouped
    ELSE LET pay == Head(rows)
             g == IF Has(grouped, pay.key) THEN Get(grouped, pay.key)
                  ELSE NewGroup(pay.key, NullRow)
         IN  MultiPayments(Put(grouped, pay.key, [ g EXCEPT !.payments = push(@, pay) ]),
                           Tail(rows))

groupByReceiptmultiapi(items, payments, transactions) ==
    ObjectValues(MultiPayments(MultiItems(MultiTransactions(<< >>, transactions), items),
                               payments))

\* DbTransactionMapper.mapTransactions: the rows are grouped by the value of
\* the invoice mapping, a row without it is passed over.
RECURSIVE GroupRowsByInvoice(_, _)
GroupRowsByInvoice(grouped, rows) ==
    IF rows = << >> THEN grouped
    ELSE LET row == Head(rows)
             g == IF Has(grouped, row.key) THEN Get(grouped, row.key) ELSE << >>
         IN  GroupRowsByInvoice(
                 IF Falsy(row.key) THEN grouped
                 ELSE Put(grouped, row.key, push(g, row)),
                 Tail(rows))

\* DbTransactionMapper.mapTransactions: one transaction for each name of
\* Object.keys(grouped), its header from the first row of the group, one item
\* from every row.
DbMapTransactions(rows) ==
    LET grouped == GroupRowsByInvoice(<< >>, rows)
        ks == ObjectKeys(grouped)
    IN  [ i \in 1..Len(ks) |->
            [ key |-> ks[i], transaction |-> Get(grouped, ks[i])[1],
              items |-> Get(grouped, ks[i]), payments |-> << >> ] ]

\* A fetch hands its three segments to the SOAP grouper.
CallGroupByReceiptNoFromSoap ==
    /\ call = "none"
    /\ \E t \in Segments : \E i \in Segments : \E p \in Segments :
         /\ args' = [ transactions |-> t, items |-> i, payments |-> p ]
         /\ result' = groupByReceiptNoFromSoap(args')
    /\ call' = "groupByReceiptNoFromSoap"
    /\ UNCHANGED programVars

\* A fetch hands the answers of its three APIs to the multi-API grouper.
CallGroupByReceiptmultiapi ==
    /\ call = "none"
    /\ \E t \in Segments : \E i \in Segments : \E p \in Segments :
         /\ args' = [ transactions |-> t, items |-> i, payments |-> p ]
         /\ result' = groupByReceiptmultiapi(i, p, t)
    /\ call' = "groupByReceiptmultiapi"
    /\ UNCHANGED programVars

\* A job hands flat database rows to DbTransactionMapper.mapTransactions.
CallDbMapTransactions ==
    /\ call = "none"
    /\ \E rows \in Segments \ { << >> } :
         /\ args' = [ transactions |-> rows, items |-> << >>, payments |-> << >> ]
         /\ result' = DbMapTransactions(rows)
    /\ call' = "DbTransactionMapper.mapTransactions"
    /\ UNCHANGED programVars

\* ------------------------------------------------ the field mappers
\* `transaction_time: null`
Null == -2

\* A source row carries one field: with a value, with null, or without it.
SourceRows == [ val : (1..MaxValue) \cup { Undefined, Null } ]

\* A raw record: the fields of the transaction, and below its row roots the
\* item rows and the payment rows.
SourceRecords == [ hdr : SourceRows, items : SeqsUpTo(SourceRows, 1),
                   payments : SeqsUpTo(SourceRows, 1) ]

\* A rule of pos_vendor_field_mapping: pvfm_tablename, pvfm_source_field
\* (the canonical field that is assigned) and whether it declares a
\* pvfm_row_root_json_path (root).
MappingRules ==
    [ table : { "raw_transactions", "raw_transaction_items", "raw_payment" },
      field : { "invoice_no", "sku" }, root : BOOLEAN ]

\* The configuration the mapper is constructed with.
config == [ com_brand_id |-> 0, com_outlet_id |-> 0, com_terminal |-> 0 ]

\* uuidv4(): a value no other call returns; u tells the runs of the generator
\* apart, the rest tells the calls of one run apart.
uuidv4(u, k, what, j) == << u, k, what, j >>

\* getMappings(tableName)
getMappings(rules, tableName) ==
    LET OfTable(m) == m.table = tableName
    IN  SelectSeq(rules, OfTable)

\* applyMapping(row, m): the value of the rule's source field in the row.
applyMapping(row, m) == row.val

\* A rule loop that assigns whatever the rule resolves to.
RECURSIVE ApplyRulesUnchecked(_, _, _)
ApplyRulesUnchecked(mapped, row, mappings) ==
    IF mappings = << >> THEN mapped
    ELSE ApplyRulesUnchecked([ mapped EXCEPT ![Head(mappings).field] = row.val ],
                             row, Tail(mappings))

\* `for (const m of mappings) { value = applyMapping(row, m);
\*    if (value !== undefined && value !== null) mapped[m.pvfm_source_field] = value }`
RECURSIVE ApplyRules(_, _, _)
ApplyRules(mapped, row, mappings) ==
    IF mappings = << >> THEN mapped
    ELSE LET m == Head(mappings)
             value == applyMapping(row, m)
         IN  ApplyRules(IF value # Undefined /\ value # Null
                        THEN [ mapped EXCEPT ![m.field] = value ]
                        ELSE mapped,
                        row, Tail(mappings))

\* A header seed that stamps the time of the run into received_at.
SeedHeaderStamped(u, k) ==
    [ transaction_id |-> uuidv4(u, k, "transaction_id", 0),
      batch_id |-> uuidv4(u, k, "batch_id", 0),
      line_id |-> Undefined,
      brand_id |-> config.com_brand_id, outlet_id |-> config.com_outlet_id,
      terminal |-> config.com_terminal,
      transaction_time |-> Null, received_at |-> u,
      invoice_no |-> 0, sku |-> Undefined ]

\* FieldMapper.mapSingleTransaction: the object literal the header starts from.
SeedHeader(u, k) ==
    [ transaction_id |-> uuidv4(u, k, "transaction_id", 0),
      batch_id |-> uuidv4(u, k, "batch_id", 0),
      line_id |-> Undefined,
      brand_id |-> config.com_brand_id, outlet_id |-> config.com_outlet_id,
      terminal |-> config.com_terminal,
      transaction_time |-> Null, received_at |-> Null,
      invoice_no |-> 0, sku |-> Undefined ]

\* FieldMapper.mapSingleTransaction(record), with every field of the header.
mapSingleTransactionFields(record, rules, u, k) ==
    ApplyRules(SeedHeader(u, k), record.hdr, getMappings(rules, "raw_transactions"))

\* The object literal an item or payment row starts from: the fields of the
\* header copied down, and an identifier of its own.
CopyDown(tx, id) ==
    [ transaction_id |-> tx.transaction_id, batch_id |-> Undefined, line_id |-> id,
      brand_id |-> tx.brand_id, outlet_id |-> tx.outlet_id, terminal |-> tx.terminal,
      transaction_time |-> tx.transaction_time, received_at |-> tx.received_at,
      invoice_no |-> tx.invoice_no, sku |-> Undefined ]

\* extractByJsonPath(record, rowRoot): the rows below the row root the rules
\* of the table name.
RowsBelowRoot(record, tableName) ==
    IF tableName = "raw_transaction_items" THEN record.items ELSE record.payments

\* FieldMapper.mapFlexibleTable(record, txMapped, tableName, transactionId):
\* no row without a rule for the table; the row root is the one of
\* mappings[0]; the rows are the rows below it, or the record itself when
\* mappings[0] declares none or it resolves to nothing; every row is the
\* copy of the header fields with the rules of the table applied on top.
mapFlexibleTable(record, txMapped, tableName, rules, u, k) ==
    LET mappings == getMappings(rules, tableName)
        rowRoot == mappings[1].root
        found == IF rowRoot THEN RowsBelowRoot(record, tableName) ELSE << >>
        rows == IF found = << >> THEN << record.hdr >> ELSE found
    IN  IF mappings = << >> THEN << >>
        ELSE [ j \in 1..Len(rows) |->
                 ApplyRules(CopyDown(txMapped, uuidv4(u, k, tableName, j)),
                            rows[j], mappings) ]

\* FieldMapper.mapTransactions(rawData): one transaction for every record,
\* in the order of the records.
mapTransactionsFields(rawData, rules, u) ==
    [ k \in 1..Len(rawData) |->
        LET tx == mapSingleTransactionFields(rawData[k], rules, u, k)
        IN  [ hdr |-> tx,
              items |-> mapFlexibleTable(rawData[k], tx, "raw_transaction_items", rules, u, k),
              payments |-> mapFlexibleTable(rawData[k], tx, "raw_payment", rules, u, k) ] ]

\* DbTransactionMapper.mapTransactionHeader(row): its literal seeds neither
\* transaction_time nor invoice_no.
mapTransactionHeader(row, rules, u) ==
    ApplyRules([ SeedHeader(u, 1) EXCEPT !.transaction_time = Undefined,
                                         !.received_at = Undefined,
                                         !.invoice_no = Undefined ],
               row, getMappings(rules, "raw_transactions"))

\* DbTransactionMapper.mapItem(row, tx)
mapItem(row, tx, rules, u) ==
    ApplyRules(CopyDown(tx, uuidv4(u, 1, "item_line_id", 1)), row,
               getMappings(rules, "raw_transaction_items"))

\* DbTransactionMapper.mapPayment(row, tx)
mapPayment(row, tx, rules, u) ==
    << ApplyRules(CopyDown(tx, uuidv4(u, 1, "payment_id", 1)), row,
                  getMappings(rules, "raw_payment")) >>

\* FieldMapper.mapTransactions is called on a fetched payload.
CallMapTransactions ==
    /\ call = "none"
    /\ \E rawData \in SeqsUpTo(SourceRecords, MaxRecords) :
       \E rules \in SeqsUpTo(MappingRules, MaxRules) :
       \E u \in 1..MaxUuid :
         /\ args' = [ rawData |-> rawData, rules |-> rules ]
         /\ result' = << mapTransactionsFields(rawData, rules, u) >>
    /\ call' = "FieldMapper.mapTransactions"
    /\ UNCHANGED programVars

\* FieldMapper.mapTransactions is called once more with the same payload,
\* rules and configuration.
CallMapTransactionsAgain ==
    /\ call = "FieldMapper.mapTransactions"
    /\ Len(result) = 1
    /\ \E u \in 1..MaxUuid :
         result' = Append(result, mapTransactionsFields(args.rawData, args.rules, u))
    /\ UNCHANGED << call, args, programVars >>

\* DbTransactionMapper maps one group of one row: header, item, payment.
CallDbMapRow ==
    /\ call = "none"
    /\ \E row \in SourceRows : \E rules \in SeqsUpTo(MappingRules, MaxRules) :
       \E u \in 1..MaxUuid :
         LET tx == mapTransactionHeader(row, rules, u)
         IN  /\ args' = [ rawData |-> << row >>, rules |-> rules ]
             /\ result' = << << [ hdr |-> tx, items |-> << mapItem(row, tx, rules, u) >>,
                                  payments |-> mapPayment(row, tx, rules, u) ] >> >>
    /\ call' = "DbTransactionMapper.mapTransactions"
    /\ UNCHANGED programVars

\* ------------------------------------------------------- specifications
\* The steps of one call of processConfig in a database that answers.
Pipeline(r) ==
    \/ NextConfig(r)
    \/ GetAllFieldMappings(r)
    \/ MapTransactions(r)
    \/ Begin(r)
    \/ CheckExists(r)
    \/ InsertTransaction(r)
    \/ InsertTransactionItems(r)
    \/ InsertPayments(r)
    \/ LogException(r)
    \/ Commit(r)
    \/ LogSuccess(r)
    \/ Rollback(r)
    \/ LogFailed(r)

\* Spec: the process from its start to the end of the startup cycle
\* (runInitialIngestion), over up to NConfigs configurations, with the faults
\* of the environment: a lost connection, a refused COMMIT, a rejected
\* ingestion-log write.
Next ==
    \/ Startup
    \/ RunInitialIngestion
    \/ \E r \in Runners :
         \/ GetActiveConfigs(r)
         \/ FetchData(r)
         \/ Pipeline(r)
         \/ CommitRefused(r)
         \/ LogSuccessRejected(r)
         \/ LogFailedRejected(r)
         \/ ConnectionLost(r)

Spec == Init /\ [][Next]_vars

\* CronSpec: the startup cycle and the cycles of the timer ticks, each over
\* one active configuration, in an environment without those faults.
CronNext ==
    \/ Startup
    \/ RunInitialIngestion
    \/ \E r \in Runners :
         \/ CronTick(r)
         \/ GetOneActiveConfig(r)
         \/ FetchData(r)
         \/ Pipeline(r)

CronSpec == Init /\ [][CronNext]_vars

\* The process with its signal handlers: as above, and SIGINT or SIGTERM may
\* arrive at any time.
Signals == { "SIGINT", "SIGTERM" }

ShutdownNext ==
    \/ Startup
    \/ RunInitialIngestion
    \/ \E signal \in Signals : GracefulShutdown(signal)
    \/ \E r \in Runners :
         \/ CronTick(r)
         \/ GetOneActiveConfig(r)
         \/ FetchData(r)
         \/ Pipeline(r)

ShutdownSpec == Init /\ [][ShutdownNext]_vars

\* The agent's startup cycle and, in the worker process, the jobs of the
\* vendor queue, on the same database.
QueueNext ==
    \/ Startup
    \/ RunInitialIngestion
    \/ \E r \in Runners :
         \/ GetOneActiveConfig(r)
         \/ FetchData(r)
         \/ Pipeline(r)
         \/ ProcessVendorData(r)
         \/ QueueBegin(r)
         \/ QueueCheckExists(r)
         \/ QueueInsertTransaction(r)
         \/ QueueLogException(r)
         \/ QueueCommit(r)
         \/ QueueRollback(r)

QueueSpec == Init /\ [][QueueNext]_vars

\* One call of a grouper on any three segments.
GrouperNext ==
    \/ CallGroupByReceiptNoFromSoap
    \/ CallGroupByReceiptmultiapi
    \/ CallDbMapTransactions

GrouperSpec == Init /\ [][GrouperNext]_vars

\* Calls of the field mappers on any payload and any rules.
MapperNext ==
    \/ CallMapTransactions
    \/ CallMapTransactionsAgain
    \/ CallDbMapRow

MapperSpec == Init /\ [][MapperNext]_vars


\* ------------------------------------------------------------------ claims
\* Rows of a table with one natural key (invoice_no, brand, outlet).
KeyRows(table, inv, outlet) ==
    { row \in table : row.invoice_no = inv /\ row.outlet_name = outlet }

Entries(b, status) ==
    { e \in ingestion_log : e.batch_id = b /\ e.status = status }

\* processConfig of batch b has returned.
Finished(b) ==
    \/ cfgIdx[b[1]] > b[2]
    \/ cfgIdx[b[1]] = b[2] /\ pc[b[1]] \in { "returned", "done" }

CountOf(outcome, what) ==
    Cardinality({ k \in 1..Len(outcome) : outcome[k] = what })

\* C1 (as stated in the specification): whatever the interleaving of two
\* batches that run on separate database transactions, the committed
\* raw_transactions holds at most one header row for every natural key.
C1_AtMostOneHeaderPerKey ==
    \A row1 \in raw_transactions : \A row2 \in raw_transactions :
        (row1.invoice_no = row2.invoice_no /\ row1.outlet_name = row2.outlet_name)
            => row1 = row2

\* C2: a batch that begins when a header row with the natural key of one of
\* its transactions is already committed skips that transaction (it is
\* counted skipped, not inserted, and the batch adds no header row with that
\* key); when no cycle ever overlapped another, the table still holds exactly
\* one header row for the key after the batch has committed.
C2_LaterBatchSkips ==
    \A r \in Runners :
        pc[r] = "logOk" =>
            /\ loc[r].totalSkipped = CountOf(loc[r].outcome, "skipped")
            /\ loc[r].totalRecords = CountOf(loc[r].outcome, "inserted")
            /\ \A k \in 1..Len(loc[r].transactions) :
                 LET inv == loc[r].transactions[k].invoice_no
                     before == KeyRows(hdrAtBegin[r], inv, cfgIdx[r])
                 IN  before # {} =>
                        /\ loc[r].outcome[k] = "skipped"
                        /\ KeyRows(RowsOf(raw_transactions, BatchId(r)), inv, cfgIdx[r]) = {}
                        /\ (~overlapped /\ Cardinality(before) = 1) =>
                              Cardinality(KeyRows(raw_transactions, inv, cfgIdx[r])) = 1

\* A later cycle has committed a batch in which a transaction was skipped
\* because an earlier, separate batch had committed its key.
C2_Witness ==
    \E r \in Runners :
        /\ pc[r] = "logOk"
        /\ ~overlapped
        /\ \E k \in 1..Len(loc[r].transactions) :
             /\ KeyRows(hdrAtBegin[r], loc[r].transactions[k].invoice_no, cfgIdx[r]) # {}
             /\ loc[r].outcome[k] = "skipped"
             /\ loc[r].totalRecords = 0

\* The ingestion log holds the SUCCESS entry of r's batch.
SuccessLogged(r) == Entries(BatchId(r), "SUCCESS") # {}

\* A second run r of the batch the first run q committed: the same
\* configuration, the same transactions, q over before r began.
SecondRun(q, r) ==
    /\ q < r
    /\ ~overlapped
    /\ pc[r] = "logOk"
    /\ cfgIdx[q] = cfgIdx[r]
    /\ SuccessLogged(q)
    /\ loc[q].transactions = loc[r].transactions

OneRecordFails(r) ==
    LET tx == loc[r].transactions
    IN  /\ loc[r].mapped
        /\ BatchId(r) \notin envFaults
        /\ Cardinality({ k \in 1..Len(tx) : tx[k].bad }) = 1
        /\ \A k \in 1..Len(tx) : tx[k].payments = 0
        /\ \A j \in 1..Len(tx) : \A k \in 1..Len(tx) :
             tx[j].invoice_no = tx[k].invoice_no => j = k

\* C4 (as stated in the specification): a batch of n transactions with
\* distinct, absent keys of which exactly one fails with a database error is
\* not rolled back: it commits with inserted n-1, errored 1, skipped 0 and
\* exactly one exception row.
C4_OneFailureIsIsolated ==
    \A r \in Runners :
        OneRecordFails(r) =>
            /\ pc[r] \notin { "rollback", "logFailed" }
            /\ pc[r] = "logOk" =>
                  /\ loc[r].totalRecords = Len(loc[r].transactions) - 1
                  /\ loc[r].totalErrors = 1
                  /\ loc[r].totalSkipped = 0
                  /\ Cardinality(RowsOf(raw_exceptions, BatchId(r))) = 1

\* C5: when a batch fails as a whole after BEGIN (COMMIT rejects, the
\* connection is lost, an error leaves the per-record handler) no row of the
\* batch is persisted, the flow is in the catches and never logs SUCCESS,
\* ROLLBACK has been sent once the inner catch is left, and, when the write of
\* the log entry is accepted, the batch is recorded FAILED with records_count 0.
C5_BatchFailureRollsBack ==
    \A b \in batchFailed :
        LET r == b[1]
        IN  /\ RowsOf(raw_transactions, b) = {}
            /\ RowsOf(raw_transaction_items, b) = {}
            /\ RowsOf(raw_payment, b) = {}
            /\ RowsOf(raw_exceptions, b) = {}
            /\ Entries(b, "SUCCESS") = {}
            /\ ~Finished(b) => pc[r] \in { "rollback", "logFailed" }
            /\ (Finished(b) \/ pc[r] = "logFailed") =>
                  (b \in rollbackIssued /\ b \in raised)
            /\ (Finished(b) /\ << b, "FAILED" >> \notin logRejected) =>
                  \E e \in Entries(b, "FAILED") : e.records_count = 0

\* A batch that had written rows failed as a whole, was rolled back and is
\* recorded FAILED.
C5_Witness ==
    \E b \in batchFailed \cap rollbackIssued :
        /\ Finished(b)
        /\ Entries(b, "FAILED") # {}
        /\ \E k \in 1..Len(loc[b[1]].outcome) : loc[b[1]].outcome[k] = "inserted"

\* C6 (as stated in the specification): every transaction of a batch whose
\* key is absent and whose statements meet no database error is counted
\* inserted, and after the commit its header row and one payment row for each
\* of its payments are persisted.
C6_AbsentKeyIsInserted ==
    \A r \in Runners :
        (loc[r].mapped /\ BatchId(r) \notin envFaults) =>
            \A k \in 1..Len(loc[r].outcome) :
                LET t == loc[r].transactions[k]
                IN  (~t.bad /\ loc[r].outcome[k] # "skipped") =>
                        /\ loc[r].outcome[k] = "inserted"
                        /\ pc[r] = "logOk" =>
                              /\ Row(r, k) \in raw_transactions
                              /\ PayRows(r, k) \subseteq raw_payment

\* C7: a configuration whose fetch, mapping or insertion raised is recorded
\* by exactly one ingestion-log entry, with status FAILED, records_count 0 and
\* errors_count 1, and the loop goes on: a cycle that is over has called
\* processConfig for every active configuration (both provided the write of
\* the FAILED entry itself is accepted).
C7_FailedConfigIsIsolated ==
    /\ \A b \in raised :
         (Finished(b) /\ << b, "FAILED" >> \notin logRejected) =>
            /\ Cardinality({ e \in ingestion_log : e.batch_id = b }) = 1
            /\ \A e \in ingestion_log :
                 e.batch_id = b =>
                    (e.status = "FAILED" /\ e.records_count = 0 /\ e.errors_count = 1)
    /\ \A r \in Runners :
         (/\ pc[r] = "done"
          /\ nActive[r] > 0
          /\ \A c \in Configs : << << r, c >>, "FAILED" >> \notin logRejected)
            => cfgIdx[r] = nActive[r]

\* Two active configurations: the first raised and is recorded FAILED, the
\* second was processed afterwards and is recorded SUCCESS.
C7_Witness ==
    \E r \in Runners :
        /\ pc[r] = "done"
        /\ nActive[r] = 2
        /\ << r, 1 >> \in raised
        /\ Entries(<< r, 1 >>, "FAILED") # {}
        /\ Entries(<< r, 2 >>, "SUCCESS") # {}

\* The fetch of r's configuration returned null or an empty array.
FetchedNothing(r) ==
    \/ loc[r].rawData.kind = "null"
    \/ loc[r].rawData.kind = "array" /\ loc[r].rawData.rows = << >>

\* C8: when the fetch returns nothing (null or an empty array) processConfig
\* returns without loading the mappings, mapping, opening a transaction or
\* writing an ingestion-log entry, and no row of the batch is in the database.
C8_NoDataDoesNothing ==
    \A r \in Runners :
        (FetchedNothing(r) /\ pc[r] \notin { "fetch", "off" }) =>
            /\ pc[r] \in { "returned", "done" }
            /\ ~loc[r].allMappings
            /\ ~loc[r].mapped
            /\ client[r] = "null"
            /\ pend[r] = NoRows
            /\ { e \in ingestion_log : e.batch_id = BatchId(r) } = {}
            /\ RowsOf(raw_transactions, BatchId(r)) = {}
            /\ RowsOf(raw_transaction_items, BatchId(r)) = {}
            /\ RowsOf(raw_payment, BatchId(r)) = {}
            /\ RowsOf(raw_exceptions, BatchId(r)) = {}

\* processConfig has returned after a fetch that gave an empty array.
C8_Witness ==
    \E r \in Runners :
        /\ pc[r] = "returned"
        /\ loc[r].rawData.kind = "array"
        /\ loc[r].rawData.rows = << >>

\* C9 (as stated in the specification): at most one executeIngestion cycle
\* is in progress at any time.
C9_SingleActiveCycle ==
    Cardinality({ r \in Runners : Active(r) }) <= 1

\* C10: within a configuration the mapping starts only when the fetch has
\* returned, and BEGIN, every existence check and every insert come only
\* after mapTransactions has returned the complete list of transactions.
C10_FetchMapInsertInOrder ==
    \A r \in Runners :
        /\ pc[r] \in { "mappings", "map" } =>
              (loc[r].rawData # NoPayload /\ ~loc[r].mapped /\ client[r] = "null")
        /\ (pc[r] \in InsertPcs \/ client[r] # "null" \/ pend[r] # NoRows) =>
              /\ loc[r].rawData # NoPayload
              /\ loc[r].mapped
              /\ loc[r].transactions = mapTransactions(loc[r].rawData)

\* A header INSERT is about to be sent for the second transaction of a
\* mapped batch.
C10_Witness ==
    \E r \in Runners :
        /\ pc[r] = "hdr"
        /\ loc[r].i = 2
        /\ loc[r].mapped
        /\ Len(loc[r].transactions) = 2

\* C11 (as stated in the specification): after SIGINT or SIGTERM no new
\* cycle is started, and the process has not exited while the batch
\* transaction of a configuration was open: none is left without COMMIT or
\* ROLLBACK.
C11_ShutdownFinishesBatch ==
    startupPc = "exited" =>
        /\ cronJob # "scheduled"
        /\ \A r \in Runners : ~Active(r)
        /\ \A r \in Runners : client[r] # "abandoned"

\* C12: when the startup validation fails no timer is scheduled and no cycle
\* ever starts; when it passes the timer is scheduled and one cycle, cycle 0,
\* is started by runInitialIngestion and by nothing else, whether or not the
\* timer has fired; the cycles of the timer start only from a scheduled timer.
C12_StartupDecides ==
    /\ [](/\ startupPc = "waiting" =>
               (cronJob = "null" /\ ~isValidated /\ \A r \in Runners : pc[r] = "off")
          /\ cronJob = "null" => \A r \in Runners : pc[r] = "off"
          /\ isValidated => cronJob = "scheduled"
          /\ startupPc = "running" => (isValidated /\ pc[0] # "off"))
    /\ [][/\ pc'[0] = "cycle" =>
               (pc[0] = "cycle" \/ (pc[0] = "off" /\ startupPc = "initial" /\ isValidated))
          /\ \A r \in Runners \ {0} :
               (pc[r] = "off" /\ pc'[r] # "off") => cronJob = "scheduled"]_vars

\* The validation passed, the timer is scheduled and has not fired, and the
\* startup cycle is in progress.
C12_Witness ==
    /\ startupPc = "running"
    /\ cronJob = "scheduled"
    /\ pc[0] = "fetch"
    /\ \A r \in Runners \ {0} : pc[r] = "off"

\* The invoice numbers of the rows batch b has persisted in a table.
InvoicesOf(table, b) == { row.invoice_no : row \in RowsOf(table, b) }

\* C13 (as stated in the specification): when the orchestrator loop and
\* insertTransactions have each committed the same list of transactions, each
\* for an outlet of which the database held no row, they have persisted
\* header, items and payment rows for the same invoices and report the same
\* inserted, skipped and errored counts.
C13_PathsAgree ==
    \A r \in QueueJobs :
        (/\ pc[0] = "done"
         /\ SuccessLogged(0)
         /\ pc[r] = "qdone"
         /\ cfgIdx[0] # cfgIdx[r]
         /\ loc[0].transactions = loc[r].transactions) =>
            /\ loc[0].totalRecords = loc[r].totalRecords
            /\ loc[0].totalSkipped = loc[r].totalSkipped
            /\ loc[0].totalErrors = loc[r].totalErrors
            /\ InvoicesOf(raw_transactions, BatchId(0)) = InvoicesOf(raw_transactions, BatchId(r))
            /\ InvoicesOf(raw_transaction_items, BatchId(0)) =
                  InvoicesOf(raw_transaction_items, BatchId(r))
            /\ Cardinality(RowsOf(raw_payment, BatchId(0))) =
                  Cardinality(RowsOf(raw_payment, BatchId(r)))

\* The rows handed to the grouper, in the order in which it reads them.
AllRows == args.transactions \o args.items \o args.payments

\* The correlation values the rows carry.
PresentKeys == { AllRows[i].key : i \in 1..Len(AllRows) } \ { MissingKey }

RowsWithKey(rows, k) ==
    LET HasKey(row) == row.key = k
    IN  SelectSeq(rows, HasKey)

LastRowOrNone(rows) == IF rows = << >> THEN NullRow ELSE rows[Len(rows)]

\* The position of the first row with correlation value k.
FirstSeen(k) ==
    CHOOSE i \in 1..Len(AllRows) :
        AllRows[i].key = k /\ \A j \in 1..(i - 1) : AllRows[j].key # k

C15_OrphanRowsDropped ==
    call # "none" =>
        \A i \in 1..Len(result) :
            /\ result[i].key # MissingKey
            /\ result[i].transaction # NullRow => result[i].transaction.key # MissingKey
            /\ \A j \in 1..Len(result[i].items) : result[i].items[j].key # MissingKey
            /\ \A j \in 1..Len(result[i].payments) : result[i].payments[j].key # MissingKey

\* C16 (as stated in the specification): every grouper returns its groups in
\* the order in which their correlation values first occur in the input, also
\* when the values are strings of decimal digits.
C16_FirstSeenOrder ==
    call # "none" =>
        \A i \in 1..Len(result) : \A j \in 1..Len(result) :
            i < j => FirstSeen(result[i].key) < FirstSeen(result[j].key)

\* The row has the header's value in each of the fields that are copied down.
SameAsHeader(row, tx) ==
    /\ row.brand_id = tx.brand_id
    /\ row.outlet_id = tx.outlet_id
    /\ row.terminal = tx.terminal
    /\ row.transaction_time = tx.transaction_time
    /\ row.invoice_no = tx.invoice_no

\* C17 (as stated in the specification): every item and payment record the
\* mappers produce has the brand_id, outlet_id, terminal, transaction_time
\* and invoice_no of its parent header, whatever the record and the rules.
C17_CopyDownHolds ==
    call \in { "FieldMapper.mapTransactions", "DbTransactionMapper.mapTransactions" } =>
        \A n \in 1..Len(result) : \A k \in 1..Len(result[n]) :
            LET tx == result[n][k]
            IN  /\ \A j \in 1..Len(tx.items) : SameAsHeader(tx.items[j], tx.hdr)
                /\ \A j \in 1..Len(tx.payments) : SameAsHeader(tx.payments[j], tx.hdr)

\* A mapped record without the identifiers uuidv4 generated for it.
WithoutIds(row) ==
    [ row EXCEPT !.transaction_id = Undefined, !.batch_id = Undefined,
                 !.line_id = Undefined ]

WithoutAllIds(output) ==
    [ k \in 1..Len(output) |->
        [ hdr |-> WithoutIds(output[k].hdr),
          items |-> [ j \in 1..Len(output[k].items) |-> WithoutIds(output[k].items[j]) ],
          payments |->
              [ j \in 1..Len(output[k].payments) |-> WithoutIds(output[k].payments[j]) ] ] ]

\* The same payload was mapped twice with the same rules.
MappedTwice == call = "FieldMapper.mapTransactions" /\ Len(result) = 2

-----------------------------------------------------------------------------
\* FieldMapper.extractByJsonPath: the path resolver.
\*
\* A JavaScript value is a record [t, n, kids]: t is its type, n the number
\* of a scalar, kids the entries [k, v] of an object in insertion order or
\* the elements of an array in index order (k is "" for an element).

MaxScalar == 2
MaxElems == 2
MaxParts == 3

Num(n) == [ t |-> "number", n |-> n, kids |-> << >> ]
JsNull == [ t |-> "null", n |-> 0, kids |-> << >> ]
JsUndefined == [ t |-> "undefined", n |-> 0, kids |-> << >> ]
Obj(entries) == [ t |-> "object", n |-> 0, kids |-> entries ]
Arr(elems) ==
    [ t |-> "array", n |-> 0,
      kids |-> [ i \in 1..Len(elems) |-> [ k |-> "", v |-> elems[i] ] ] ]

\* The payloads: scalars and nulls, objects {c: leaf}, arrays of these, and
\* objects {a: {b: ...}} around them, e.g. {a: {b: [{c: 1}, {c: 2}]}}.
Leaves == { Num(n) : n \in 0..MaxScalar } \cup { JsNull }
LeafObjects ==
    { Obj(<< >>) } \cup { Obj(<< [ k |-> "c", v |-> l ] >>) : l \in Leaves }
Elements == Leaves \cup LeafObjects
Arrays ==
    { Arr(e) : e \in UNION { [ 1..n -> Elements ] : n \in 0..MaxElems } }
InnerObjects ==
    { Obj(<< >>) }
        \cup { Obj(<< [ k |-> "b", v |-> x ] >>) : x \in Elements \cup Arrays }
Trees ==
    Leaves \cup Arrays
        \cup { Obj(<< [ k |-> "a", v |-> y ] >>) : y \in Leaves \cup InnerObjects }

\* path.split('.'): the segments of a path, each a key with or without a
\* trailing [*]; the empty sequence is the empty path.
PathKeys == { "a", "b", "c", "x" }
Parts ==
    [ key : PathKeys, wild : BOOLEAN ] \cup { [ key |-> "", wild |-> TRUE ] }
Paths == UNION { [ 1..n -> Parts ] : n \in 0..MaxParts }

\* !obj
Not(obj) == obj.t \in { "null", "undefined" } \/ obj = Num(0)

\* part in current, for an object or an array (the keys of an array are
\* its indices, never one of PathKeys).
In(part, current) ==
    current.t = "object" /\ \E i \in 1..Len(current.kids) : current.kids[i].k = part

\* current[key]: undefined when there is no such property.
Member(current, key) ==
    IF In(key, current)
    THEN current.kids[CHOOSE i \in 1..Len(current.kids) : current.kids[i].k = key].v
    ELSE JsUndefined

Found(vals) == [ raised |-> FALSE, vals |-> vals ]
TypeError == [ raised |-> TRUE, vals |-> << >> ]

\* `part in current` throws a TypeError when current is not an object.
inOperatorThrows(current) == current.t = "number"

\* flatMap concatenates the results of the elements in index order.
concat(a, b) == a \o b

RECURSIVE walk(_, _, _)
RECURSIVE flatMap(_, _, _)

walk(parts, current, index) ==
    IF current.t \in { "null", "undefined" } THEN Found(<< >>)
    ELSE IF index = Len(parts) + 1 THEN Found(<< current >>)
    ELSE LET part == parts[index]
         IN  IF part.wild
             THEN LET arr == IF part.key # "" THEN Member(current, part.key) ELSE current
                  IN  IF arr.t # "array"
                      THEN Found(<< >>)
                      ELSE flatMap(parts, arr.kids, index + 1)
             ELSE IF inOperatorThrows(current) THEN TypeError
             ELSE IF ~In(part.key, current) THEN Found(<< >>)
             ELSE walk(parts, Member(current, part.key), index + 1)

flatMap(parts, items, index) ==
    IF items = << >> THEN Found(<< >>)
    ELSE LET first == walk(parts, Head(items).v, index)
         IN  IF first.raised THEN TypeError
             ELSE LET rest == flatMap(parts, Tail(items), index)
                  IN  IF rest.raised THEN TypeError
                      ELSE Found(concat(first.vals, rest.vals))

\* The outcome of a call: the value returned, or a raised TypeError.
Returned(value) == [ raised |-> FALSE, value |-> value ]
Raised == [ raised |-> TRUE, value |-> JsUndefined ]

extractByJsonPath(obj, path) ==
    IF Not(obj) \/ path = << >> THEN Returned(JsNull)
    ELSE LET found == walk(path, obj, 1)
         IN  IF found.raised THEN Raised
             ELSE IF Len(found.vals) = 0 THEN Returned(JsNull)
             ELSE IF Len(found.vals) = 1 THEN Returned(found.vals[1])
             ELSE Returned(Arr(found.vals))

CallExtractByJsonPath ==
    /\ call = "none"
    /\ \E obj \in Trees, path \in Paths :
        /\ call' = "extractByJsonPath"
        /\ args' = << obj, path >>
        /\ result' = << extractByJsonPath(obj, path) >>
    /\ UNCHANGED programVars

ResolverNext == CallExtractByJsonPath

ResolverSpec == Init /\ [][ResolverNext]_vars


\* The payload and the paths of the specification's example.
ExampleTree ==
    Obj(<< [ k |-> "a",
             v |-> Obj(<< [ k |-> "b",
                            v |-> Arr(<< Obj(<< [ k |-> "c", v |-> Num(1) ] >>),
                                         Obj(<< [ k |-> "c", v |-> Num(2) ] >>) >>) ] >>) ] >>)
PathABWildC ==
    << [ key |-> "a", wild |-> FALSE ], [ key |-> "b", wild |-> TRUE ],
       [ key |-> "c", wild |-> FALSE ] >>
PathAX == << [ key |-> "a", wild |-> FALSE ], [ key |-> "x", wild |-> FALSE ] >>

Resolved == call = "extractByJsonPath"

\* C19 (as stated in the specification): for every tree of objects, arrays,
\* scalars and nulls and every path, extractByJsonPath returns without
\* raising, also when a value met in the middle of the path is a scalar;
\* path a.b[*].c on {a:{b:[{c:1},{c:2}]}} gives [1,2] and path a.x gives null.
C19_NeverRaises ==
    Resolved =>
        /\ ~result[1].raised
        /\ args = << ExampleTree, PathABWildC >> =>
               result[1].value = Arr(<< Num(1), Num(2) >>)
        /\ args = << ExampleTree, PathAX >> => result[1].value = JsNull

\* The two examples of the specification, on their own.
C19_ExamplesHold ==
    Resolved =>
        /\ args = << ExampleTree, PathABWildC >> =>
               result[1] = Returned(Arr(<< Num(1), Num(2) >>))
        /\ args = << ExampleTree, PathAX >> => result[1] = Returned(JsNull)

\* A path of plain keys, without a [*] segment.
Plain(path) == Len(path) > 0 /\ \A i \in 1..Len(path) : ~path[i].wild

\* What the tree stores at a path of plain keys: the value (a literal null
\* included), or undefined when the path leads to nothing.
RECURSIVE StoredAt(_, _)
StoredAt(v, parts) ==
    IF parts = << >> THEN v ELSE StoredAt(Member(v, Head(parts).key), Tail(parts))

\* C20 (as stated in the specification): extractByJsonPath returns the
\* value unwrapped when exactly one value resolves, the values as a sequence
\* in source order when several resolve and the absent value when none
\* resolves; and the result for a path that leads to a literal null stored
\* in the tree differs from the result for a path that leads to nothing.
C20_UnwrapsAndTellsNullApart ==
    (Resolved /\ ~result[1].raised /\ ~Not(args[1]) /\ args[2] # << >>) =>
        LET obj == args[1]
            path == args[2]
            vals == walk(path, obj, 1).vals
        IN  /\ Len(vals) = 1 => result[1].value = vals[1]
            /\ Len(vals) > 1 => result[1].value = Arr(vals)
            /\ Len(vals) = 0 => result[1].value = JsNull
            /\ (Plain(path) /\ StoredAt(obj, path) = JsNull) =>
                   \A other \in Paths :
                       (Plain(other) /\ StoredAt(obj, other) = JsUndefined
                            /\ ~extractByJsonPath(obj, other).raised)
                           => extractByJsonPath(obj, other) # result[1]


\* The rows with the transaction_id of transaction k of r's batch.
RowsOfTransaction(table, r, k) ==
    { row \in table : row.transaction_id = << r, cfgIdx[r], k >> }

\* C22 (as stated in the specification): after a batch commits, a
\* transaction that was counted as errored has no header, items or payment
\* row persisted from that batch.
C22_ErroredLeavesNoRow ==
    \A r \in Runners :
        pc[r] = "logOk" =>
            \A k \in 1..Len(loc[r].outcome) :
                loc[r].outcome[k] = "errored" =>
                    /\ RowsOfTransaction(raw_transactions, r, k) = {}
                    /\ RowsOfTransaction(raw_transaction_items, r, k) = {}
                    /\ RowsOfTransaction(raw_payment, r, k) = {}

BatchIds == Runners \X Configs

\* C23 (as stated in the specification): per configuration and cycle at
\* most one ingestion-log entry is written; whenever that entry is FAILED
\* (records_count 0) no header, items or payment row of the batch is
\* persisted; a SUCCESS entry is written only after the batch transaction
\* has committed.
C23_OneLogEntryPerBatch ==
    \A b \in BatchIds :
        /\ Cardinality({ e \in ingestion_log : e.batch_id = b }) <= 1
        /\ \A e \in Entries(b, "FAILED") :
             /\ e.records_count = 0
             /\ RowsOf(raw_transactions, b) = {}
             /\ RowsOf(raw_transaction_items, b) = {}
             /\ RowsOf(raw_payment, b) = {}
        /\ Entries(b, "SUCCESS") # {} =>
             (b \notin batchFailed /\ b \notin rollbackIssued)

\* processConfig of r's configuration has just written its SUCCESS entry.
JustLogged(r) == pc[r] = "returned" /\ SuccessLogged(r)

\* C24: whenever processConfig writes a SUCCESS ingestion-log entry,
\* records_count + errors_count + meta.skippedCount equals the number of
\* transactions the mapper returned, and each transaction is counted in
\* exactly one of the three: records_count is the number of inserted ones,
\* errors_count of errored ones, skippedCount of skipped ones.
C24_CountsAddUp ==
    \A r \in Runners :
        JustLogged(r) =>
            \A e \in Entries(BatchId(r), "SUCCESS") :
                /\ e.records_count + e.errors_count + e.skippedCount
                       = Len(loc[r].transactions)
                /\ Len(loc[r].outcome) = Len(loc[r].transactions)
                /\ e.records_count = CountOf(loc[r].outcome, "inserted")
                /\ e.errors_count = CountOf(loc[r].outcome, "errored")
                /\ e.skippedCount = CountOf(loc[r].outcome, "skipped")

\* A SUCCESS entry was written for a batch of two transactions of which one
\* was counted as errored and the other as inserted.
C24_Witness ==
    \E r \in Runners :
        /\ JustLogged(r)
        /\ \E e \in Entries(BatchId(r), "SUCCESS") :
             e.records_count = 1 /\ e.errors_count = 1 /\ e.skippedCount = 0

\* C25 (as stated in the specification): if the write of the ingestion-log
\* entry of one configuration fails (the SUCCESS write or the FAILED write),
\* executeIngestion still processes every later configuration of the cycle:
\* a cycle that is over has called processConfig for every active one.
C25_LogFailureIsIsolated ==
    \A r \in Runners :
        (/\ pc[r] = "done"
         /\ nActive[r] > 0
         /\ \E c \in Configs : \E status \in { "SUCCESS", "FAILED" } :
              << << r, c >>, status >> \in logRejected)
            => cfgIdx[r] = nActive[r]


-----------------------------------------------------------------------------
\* FieldMapper.applyTransformation and FieldMapper.buildTimestamp.
\*
\* A value is a string of one of a few shapes: "numeric" ("12"), "alpha"
\* ("Abc"), "isodate" ("2025-12-10T14:30:05Z"), "apidatetime"
\* ("13/01/2026 03:08:08 PM"), "timestamp" ("2025-12-10 14:30:05") or
\* "empty" ("").  n tells two strings of a shape apart; form is what a
\* transformation made of the string ("raw": nothing yet).

Text(kind, n) == [ kind |-> kind, n |-> n, form |-> "raw" ]
TransformValues ==
    { Text(k, n) : k \in { "numeric", "alpha", "isodate", "apidatetime", "empty" },
                   n \in 1..MaxValue }
NullValue == [ kind |-> "null", n |-> 0, form |-> "raw" ]
As(value, form) == [ value EXCEPT !.form = form ]

\* The rule names applyTransformation knows, and one it does not know.
TransformRules ==
    { "epochToDate", "epochToTimestamp", "toUpperCase", "toLowerCase",
      "parseFloat", "parseInt", "toISOString", "parseDateTime", "trim" }

\* parseApiDateTime: null for an empty string and for a string that is not
\* DD/MM/YYYY hh:mm:ss A (strict parse), the formatted local time otherwise.
parseApiDateTime(dateTimeStr) ==
    IF dateTimeStr.kind = "apidatetime"
    THEN As(dateTimeStr, "YYYY-MM-DD HH:mm:ss")
    ELSE NullValue

\* applyTransformation(value, rule).  lenient is what the build's libraries
\* do where the language leaves it open: whether new Date accepts a string
\* that is not in the ISO format, and whether dayjs formats an invalid date as
\* "Invalid Date" (TRUE) or throws, which the catch turns into `return value`.
applyTransformation(value, rule, lenient) ==
    CASE rule \in { "epochToDate", "epochToTimestamp" } ->
            IF value.kind \in { "numeric", "empty" } THEN As(value, rule)
            ELSE IF lenient THEN As(value, "Invalid Date") ELSE value
      [] rule \in { "toUpperCase", "toLowerCase" } ->
            IF value.kind \in { "numeric", "empty", "timestamp" } THEN value
            ELSE As(value, rule)
      [] rule \in { "parseFloat", "parseInt" } ->
            IF value.kind \in { "alpha", "empty" } THEN As(value, "NaN")
            ELSE As(value, "number")
      [] rule = "toISOString" ->
            IF value.kind = "isodate" THEN As(value, "toISOString")
            ELSE IF value.kind \in { "alpha", "empty" } THEN value
            ELSE IF lenient THEN As(value, "toISOString") ELSE value
      [] rule = "parseDateTime" -> parseApiDateTime(value)
      [] OTHER -> value

CallApplyTransformation ==
    /\ call = "none"
    /\ \E value \in TransformValues, rule \in TransformRules, lenient \in BOOLEAN :
        /\ call' = "applyTransformation"
        /\ args' = << value, rule, lenient >>
        /\ result' = << Returned(applyTransformation(value, rule, lenient)) >>
    /\ UNCHANGED programVars

\* The rule cannot be applied to the value: a string that is not a number
\* for parseFloat and parseInt, an invalid date for toISOString, a datetime
\* that is not in the expected format for parseDateTime.
CannotApply(value, rule) ==
    \/ rule \in { "parseFloat", "parseInt" } /\ value.kind = "alpha"
    \/ rule = "toISOString" /\ value.kind = "alpha"
    \/ rule = "parseDateTime" /\ value.kind \in { "alpha", "isodate" }

\* C21 (as stated in the specification): for every value and every rule
\* name applyTransformation returns without raising, and whenever the rule
\* cannot be applied to the value the result is the original value unchanged.
C21_TransformIsTotal ==
    call = "applyTransformation" =>
        /\ ~result[1].raised
        /\ CannotApply(args[1], args[2]) => result[1].value = args[1]


\* The rows the specification expects mapFlexibleTable to map: the rows below
\* the row root when some rule of the table declares one, the record itself
\* only when none does.
ExpectedRows(record, tableName, rules) ==
    LET mappings == getMappings(rules, tableName)
    IN  IF \E i \in 1..Len(mappings) : mappings[i].root
        THEN RowsBelowRoot(record, tableName)
        ELSE << record.hdr >>

ExpectedTable(record, tx, tableName, rules, ids) ==
    LET mappings == getMappings(rules, tableName)
        rows == ExpectedRows(record, tableName, rules)
    IN  IF mappings = << >> THEN << >>
        ELSE [ j \in 1..Len(rows) |->
                 ApplyRules(CopyDown(tx, ids[j].line_id), rows[j], mappings) ]

\* C26 (as stated in the specification): for a table's rule list the row
\* root the mapper uses is the row root of the first rule of the table that
\* declares one, whatever the position of that rule; only when no rule of
\* the table declares a row root is the record itself treated as the row.
C26_FirstDeclaredRowRoot ==
    (call = "FieldMapper.mapTransactions" /\ Len(result) = 1) =>
        \A k \in 1..Len(result[1]) :
            LET tx == result[1][k]
                record == args.rawData[k]
            IN  /\ Len(tx.items) =
                       Len(ExpectedTable(record, tx.hdr, "raw_transaction_items",
                                         args.rules, tx.items))
                /\ tx.items = ExpectedTable(record, tx.hdr, "raw_transaction_items",
                                            args.rules, tx.items)
                /\ Len(tx.payments) =
                       Len(ExpectedTable(record, tx.hdr, "raw_payment",
                                         args.rules, tx.payments))
                /\ tx.payments = ExpectedTable(record, tx.hdr, "raw_payment",
                                               args.rules, tx.payments)

\* The canonical fields a rule can assign.
RuleFields == { "invoice_no", "sku" }

\* C29: when a mapping rule resolves to null or to undefined the target
\* field keeps the value it had before the rule was applied (the seeded
\* default of the header, the value copied down from the header for an item
\* or a payment), and no rule ever sets a canonical field to null or to
\* undefined: invoice_no, seeded 0, is never null or undefined, and sku,
\* absent until a rule assigns it, is never null.
C29_NullKeepsDefault ==
    (call = "FieldMapper.mapTransactions" /\ Len(result) = 1) =>
        \A k \in 1..Len(result[1]) :
            LET tx == result[1][k]
                record == args.rawData[k]
                Kept(row, mapped, before) ==
                    /\ \A f \in RuleFields : mapped[f] # Null
                    /\ mapped.invoice_no # Undefined
                    /\ row.val \in { Null, Undefined } =>
                          \A f \in RuleFields : mapped[f] = before[f]
                RowOf(tableName) ==
                    LET found == RowsBelowRoot(record, tableName)
                        mappings == getMappings(args.rules, tableName)
                    IN  IF mappings[1].root /\ found # << >> THEN found[1] ELSE record.hdr
            IN  /\ Kept(record.hdr, tx.hdr, [ invoice_no |-> 0, sku |-> Undefined ])
                /\ \A j \in 1..Len(tx.items) :
                     Kept(RowOf("raw_transaction_items"), tx.items[j],
                          [ invoice_no |-> tx.hdr.invoice_no, sku |-> Undefined ])
                /\ \A j \in 1..Len(tx.payments) :
                     Kept(RowOf("raw_payment"), tx.payments[j],
                          [ invoice_no |-> tx.hdr.invoice_no, sku |-> Undefined ])

\* A record whose header field is null and whose item row is undefined was
\* mapped under rules for invoice_no in both tables: the header keeps its
\* seeded invoice_no 0 and the item the invoice_no copied down.
C29_Witness ==
    /\ call = "FieldMapper.mapTransactions"
    /\ Len(result) = 1
    /\ \E k \in 1..Len(result[1]) :
         /\ args.rawData[k].hdr.val = Null
         /\ args.rawData[k].items = << [ val |-> Undefined ] >>
         /\ \E i \in 1..Len(args.rules) :
              args.rules[i] = [ table |-> "raw_transactions", field |-> "invoice_no",
                                root |-> FALSE ]
         /\ \E i \in 1..Len(args.rules) :
              args.rules[i] = [ table |-> "raw_transaction_items", field |-> "invoice_no",
                                root |-> TRUE ]
         /\ result[1][k].hdr.invoice_no = 0
         /\ Len(result[1][k].items) = 1
         /\ result[1][k].items[1].invoice_no = 0


\* ------------------------------------------------ combined date|time rules
MaxClock == 2

\* The date field of a record: absent, a string in one of four layouts, or
\* the number 202512dd; n is its day.  The time field: absent, a string in
\* one of five layouts, or the number 1430ss; n is its second.
DateValues ==
    { [ type |-> "undefined", shape |-> "none", n |-> 0 ] }
        \cup [ type : { "string" },
               shape : { "YYYYMMDD", "YYYY-MM-DD", "YYYY/MM/DD", "DD/MM/YYYY" },
               n : 1..MaxClock ]
        \cup [ type : { "number" }, shape : { "YYYYMMDD" }, n : 1..MaxClock ]
TimeValues ==
    { [ type |-> "undefined", shape |-> "none", n |-> 0 ] }
        \cup [ type : { "string" },
               shape : { "HHMMSS", "HH:MM:SS", "HH:MM:SS.ffffff", "HH:MM:SS PM",
                         "HH.MM.SS" },
               n : 1..MaxClock ]
        \cup [ type : { "number" }, shape : { "HHMMSS" }, n : 1..MaxClock ]

\* `${datePart} ${timePart}`: the string "2025-12-dd 14:30:ss".
Timestamp(d, s) == Text("timestamp", 100 * d + s)

\* A TypeError leaves the function.
Thrown == [ raised |-> TRUE, value |-> NullValue ]

\* FieldMapper.buildTimestamp(record, mapping): dt and tm are record[dateKey]
\* and record[timeKey], rule is the rule's pvfm_transform_rule ("none": it
\* has none).  RegExp.test converts a number to its digits, slice exists on
\* strings only.
buildTimestamp(dt, tm, rule, lenient) ==
    IF dt.type = "undefined" \/ tm.type = "undefined" THEN Returned(NullValue)
    ELSE IF dt.shape \notin { "YYYYMMDD", "YYYY-MM-DD" } THEN Returned(NullValue)
    ELSE IF dt.type = "number" THEN Thrown
    ELSE IF tm.shape \notin { "HHMMSS", "HH:MM:SS", "HH:MM:SS.ffffff", "HH:MM:SS PM" }
    THEN Returned(NullValue)
    ELSE IF tm.type = "number" THEN Thrown
    ELSE IF rule = "none" THEN Returned(Timestamp(dt.n, tm.n))
    ELSE Returned(applyTransformation(Timestamp(dt.n, tm.n), rule, lenient))

\* DbTransactionMapper.buildTimestamp(date, time): split exists on strings
\* only; the parts of a date that is not d/m/y, or of a time that is not
\* h:m:s, give an invalid Date, whose toISOString throws a RangeError.
DbBuildTimestamp(date, time) ==
    IF date.type = "undefined" \/ time.type = "undefined" THEN Returned(NullValue)
    ELSE IF date.type = "number" \/ time.type = "number" THEN Thrown
    ELSE IF date.shape \in { "YYYYMMDD", "YYYY-MM-DD" } THEN Thrown
    ELSE IF time.shape \in { "HHMMSS", "HH.MM.SS" } THEN Thrown
    ELSE Returned([ Timestamp(date.n, time.n) EXCEPT
                      !.form = IF date.shape = "DD/MM/YYYY" THEN "toISOString"
                               ELSE "toISOString of year dd" ])

\* Raw records with a date and a time field, mapped under one
\* raw_transactions rule whose path is `date|time`.
TimedRecords == [ date : DateValues, time : TimeValues ]

\* FieldMapper.mapTransactions: the try around one record; a record whose
\* mapping raises is logged and left out, the others are pushed in order.
RECURSIVE mapTransactionsTimed(_, _)
mapTransactionsTimed(rawData, k) ==
    IF k > Len(rawData) THEN << >>
    ELSE LET value == buildTimestamp(rawData[k].date, rawData[k].time, "none", FALSE)
             rest == mapTransactionsTimed(rawData, k + 1)
         IN  IF value.raised THEN rest
             ELSE << [ record |-> k, transaction_time |-> value.value ] >> \o rest

\* DbTransactionMapper.mapTransactions: no try around a group; what
\* mapTransactionHeader raises leaves mapTransactions.  (Every row has an
\* invoice number of its own, in ascending order.)
DbMapTransactionsTimed(rows) ==
    IF \E k \in 1..Len(rows) : DbBuildTimestamp(rows[k].date, rows[k].time).raised
    THEN [ raised |-> TRUE, value |-> << >> ]
    ELSE Returned([ k \in 1..Len(rows) |->
                      [ record |-> k,
                        transaction_time |->
                            DbBuildTimestamp(rows[k].date, rows[k].time).value ] ])

CallBuildTimestamp ==
    /\ call = "none"
    /\ \E dt \in DateValues, tm \in TimeValues, lenient \in BOOLEAN :
       \E rule \in TransformRules \cup { "none" } :
        /\ call' = "buildTimestamp"
        /\ args' = << dt, tm, rule, lenient >>
        /\ result' = << buildTimestamp(dt, tm, rule, lenient) >>
    /\ UNCHANGED programVars

CallMapTimedRecords ==
    /\ call = "none"
    /\ \E rawData \in SeqsUpTo(TimedRecords, MaxRecords) \ { << >> } :
        /\ call' = "FieldMapper.mapTransactions"
        /\ args' = << rawData >>
        /\ result' = << Returned(mapTransactionsTimed(rawData, 1)) >>
    /\ UNCHANGED programVars

CallDbMapTimedRows ==
    /\ call = "none"
    /\ \E rows \in SeqsUpTo(TimedRecords, MaxRecords) \ { << >> } :
        /\ call' = "DbTransactionMapper.mapTransactions"
        /\ args' = << rows >>
        /\ result' = << DbMapTransactionsTimed(rows) >>
    /\ UNCHANGED programVars

TransformSpec ==
    Init /\ [][ \/ CallApplyTransformation
                \/ CallBuildTimestamp
                \/ CallMapTimedRecords
                \/ CallDbMapTimedRows ]_vars

\* The date is YYYYMMDD or YYYY-MM-DD and the time HHMMSS or HH:MM:SS[.ffffff].
WellFormed(dt, tm) ==
    /\ dt.shape \in { "YYYYMMDD", "YYYY-MM-DD" }
    /\ tm.shape \in { "HHMMSS", "HH:MM:SS", "HH:MM:SS.ffffff" }

\* C27 (as stated in the specification): for a mapping whose path contains
\* `|`, buildTimestamp returns YYYY-MM-DD HH:MM:SS when the date is YYYYMMDD
\* or YYYY-MM-DD and the time is HHMMSS or HH:MM:SS[.ffffff]; for any other
\* date or time value, of any type, it returns null; it never raises, and the
\* record is still output with its other fields.
C27_TimestampOrNull ==
    /\ (call = "buildTimestamp" /\ args[3] = "none") =>
          /\ ~result[1].raised
          /\ (WellFormed(args[1], args[2])
                  /\ args[1].type = "string" /\ args[2].type = "string")
                => result[1].value = Timestamp(args[1].n, args[2].n)
          /\ ~WellFormed(args[1], args[2]) => result[1].value = NullValue
    /\ call = "FieldMapper.mapTransactions" =>
          Len(result[1].value) = Len(args[1])

\* The records whose timestamp the mapper in use cannot build.
RaisingRecords ==
    { k \in 1..Len(args[1]) :
        IF call = "FieldMapper.mapTransactions"
        THEN buildTimestamp(args[1][k].date, args[1][k].time, "none", FALSE).raised
        ELSE DbBuildTimestamp(args[1][k].date, args[1][k].time).raised }

\* C28 (as stated in the specification): when mapping one raw record raises,
\* mapTransactions (FieldMapper and DbTransactionMapper) skips that record
\* only: every other record is in the output, in input order, and
\* mapTransactions itself does not raise.
C28_SkipsRaisingRecordOnly ==
    call \in { "FieldMapper.mapTransactions", "DbTransactionMapper.mapTransactions" } =>
        /\ ~result[1].raised
        /\ Len(result[1].value) = Len(args[1]) - Cardinality(RaisingRecords)
        /\ \A i \in 1..Len(result[1].value) :
             /\ result[1].value[i].record \notin RaisingRecords
             /\ \A j \in 1..Len(result[1].value) :
                  i < j => result[1].value[i].record < result[1].value[j].record

\* The same, for FieldMapper.mapTransactions alone.
C28_FieldMapperSkips ==
    call = "FieldMapper.mapTransactions" => C28_SkipsRaisingRecordOnly


-----------------------------------------------------------------------------
\* POST /vendor-data/ingest and VendorQueue.addJob.
\*
\* args is the sequence of the requests received so far, each with its
\* vendorId, the value Date.now() has while addJob runs (now) and its batch
\* (data: the number of the request).  result holds the jobs of the Bull
\* queue, the responses sent and the batches the worker has processed.

MaxRequests == 3
MaxNow == 2
MaxVendor == 2

NoJobs == [ jobs |-> << >>, responses |-> << >>, processed |-> << >> ]

\* queue.add(payload, { jobId }): Bull adds no job when a job with the same
\* custom jobId is in the queue (waiting, active, or kept after completion by
\* removeOnComplete: 100); it resolves to the job with that id either way.
queueAdd(jobs, jobId, data) ==
    IF \E i \in 1..Len(jobs) : jobs[i].id = jobId THEN jobs
    ELSE Append(jobs, [ id |-> jobId, data |-> data, state |-> "waiting" ])

\* The handler of POST /vendor-data/ingest for a valid body: addJob builds
\* the jobId `vendor-${vendorId}-${Date.now()}` and adds the job; the answer
\* is 202 with job.id, or 500 when queue.add rejects.
PostIngest ==
    /\ Len(args) < MaxRequests
    /\ \E vendorId \in 1..MaxVendor, now \in 1..MaxNow :
        /\ args # << >> => now >= args[Len(args)].now
        /\ LET queue == IF call = "none" THEN NoJobs ELSE result
               jobId == << vendorId, now >>
               data == Len(args) + 1
           IN  /\ args' = Append(args, [ vendorId |-> vendorId, now |-> now,
                                         data |-> data ])
               /\ \/ result' =
                        [ queue EXCEPT
                            !.jobs = queueAdd(@, jobId, data),
                            !.responses = Append(@, [ status |-> 202, jobId |-> jobId ]) ]
                  \/ result' =
                        [ queue EXCEPT
                            !.responses = Append(@, [ status |-> 500, jobId |-> jobId ]) ]
    /\ call' = "POST /vendor-data/ingest"
    /\ UNCHANGED programVars

\* The worker takes the oldest waiting job and processes its batch.
ProcessJob ==
    /\ call = "POST /vendor-data/ingest"
    /\ \E i \in 1..Len(result.jobs) :
        /\ result.jobs[i].state = "waiting"
        /\ \A j \in 1..(i - 1) : result.jobs[j].state # "waiting"
        /\ result' = [ result EXCEPT !.jobs[i].state = "completed",
                                     !.processed = Append(@, result.jobs[i].data) ]
    /\ UNCHANGED << call, args, programVars >>

IngestSpec == Init /\ [][PostIngest \/ ProcessJob]_vars

\* The requests that were answered with 202.
Accepted == { i \in 1..Len(args) : result.responses[i].status = 202 }

\* C30 (as stated in the specification): every POST /vendor-data/ingest
\* request answered with 202 has its own job in the queue: two accepted
\* requests, also of the same vendor within the same clock millisecond, get
\* two distinct job ids, and the batch of each is held by a job (and so is
\* processed by the worker).
C30_EveryAcceptedHasItsJob ==
    call = "POST /vendor-data/ingest" =>
        /\ \A i \in Accepted : \A j \in Accepted :
             i # j => result.responses[i].jobId # result.responses[j].jobId
        /\ \A i \in Accepted :
             \E k \in 1..Len(result.jobs) : result.jobs[k].data = args[i].data

=============================================================================
